---- MODULE Spec2Model ----
(***************************************************************************)
(* VobSub2SRT: the read loop, the OCR slot pool and its dispatcher, the    *)
(* do_ocr task, the drain and the sort / end_pts repair / write pass of    *)
(* main() in src/vobsub2srt.c++.                                           *)
(*                                                                         *)
(* Loop indices are kept 0-based as in the source; a C++ element v[i] is   *)
(* the TLA+ element v[i + 1].  A thread pointer is the id of the task it   *)
(* runs (0 is the NULL pointer).                                           *)
(*                                                                         *)
(* Steps of main() that touch nothing a do_ocr thread reads or writes are  *)
(* taken together with the next step that does.  In do_ocr the push_back   *)
(* and the unlock are one step (nothing else reads conv_subs before the    *)
(* joins), and so are the store to done and the end of the thread.         *)
(* fate, run, processed, reordered, oob_read, example and ordered are      *)
(* history variables: the program has no such state and no action reads    *)
(* them.                                                                   *)
(*                                                                         *)
(* pts2srt is a pure function; PtsSpec calls it on its own, on time stamps *)
(* over the whole unsigned range.                                          *)
(***************************************************************************)
EXTENDS Integers, Sequences, FiniteSets, TLC

\* ------------------------------------------------------------------ bounds
\* number of frames the decoder delivers at most
MaxFrames == 3
\* largest --max-threads value / hardware_concurrency() result explored
MaxThreads == 2
\* number of TesseractRect calls that fail (return NULL) at most
MaxOcrFailures == 1
\* number of VobSub tracks mkvmerge reports for a file at most
MaxTracks == 2
\* length of a text TesseractRect returns to a do_ocr call on its own at most
MaxText == 4
\* number of bytes of the image of a loop body on its own at most
MaxImage == 2

\* -------------------------------------------------------- program constants
\* An unsigned is kept as its 32-bit pattern read as a two's complement
\* integer (TLC integers are 32 bits wide): 0 .. 2^31 - 1 stand for
\* themselves, UINT_MAX = 0xFFFFFFFF is -1.  main() only compares time stamps
\* for equality, which this keeps.
UINT_MAX == -1
min_width == 9
min_height == 1
\* exit_code as long as main() has not returned: none of its return values
NotReturned == 256

\* --------------------------------------------------------------- input sets
\* what spudec_get_data hands to the loop body
Frame(start_pts, end_pts, width, height) ==
  [start_pts |-> start_pts, end_pts |-> end_pts,
   width |-> width, height |-> height]

\* the frames the decoder may deliver, in any order and any number of times:
\* large enough with and without a known end, too narrow, too low
Frames ==
  {Frame(0, UINT_MAX, 9, 1),
   Frame(9000, UINT_MAX, 9, 1),
   Frame(18000, 27000, 9, 1),
   Frame(9000, UINT_MAX, 8, 1),
   Frame(18000, 27000, 9, 0)}

\* the stream of the end-to-end example: three frames that are large enough
ExampleStream ==
  <<Frame(0, UINT_MAX, 9, 1),
    Frame(9000, UINT_MAX, 9, 1),
    Frame(18000, 27000, 9, 1)>>

\* what an out-of-bounds read of conv_subs[size].start_pts may yield
IndeterminateValues == {9000, UINT_MAX}

\* a char* : the NULL pointer or a NUL-terminated string (sequence of chars)
NULL == [null |-> TRUE, str |-> <<>>]
CStr(s) == [null |-> FALSE, str |-> s]
\* what TessBaseAPI::TesseractRect returns
OcrReturns == {NULL, CStr(<<"a", " ">>)}

VARIABLES
  pc,             \* position of main()
  exit_code,      \* return value of main(), NotReturned while it runs
  max_threads,    \* int max_threads
  dumb,           \* bool dumb
  nread,          \* frames delivered by the decoder so far
  last_start_pts, \* unsigned last_start_pts
  sub_counter,    \* unsigned sub_counter
  cur,            \* the frame the loop body works on
  threads,        \* vector<ocr_thread_t *> threads
  ocr_thread,     \* ocr_thread_t *ocr_thread (0-based slot index, -1 = NULL)
  i,              \* the loop index i of the polling, drain and write loops
  tasks,          \* every do_ocr call started so far, by id
  mut,            \* mutex mut: 0 or the id of the task holding it
  conv_subs,      \* vector<sub_text_t> conv_subs
  srt,            \* records written to srtout
  engines,        \* TessBaseAPI instances: "live" or "deleted"
  fate,           \* history: what became of the frame delivered last
  run,            \* history: consecutive frames so far with cur's start_pts
  processed,      \* history: frames of that run past the duplicate test
  reordered,      \* history: a result was pushed after one of a later frame
  oob_read,       \* history: the write loop read conv_subs[size]
  example,        \* history: leading frames equal to ExampleStream, or -1
  pts,            \* unsigned pts, the argument of a pts2srt call of its own
  buf,            \* char buf[length] of that call, <<>> before snprintf
  script,         \* the variables of a run of the FileFlows function Script
  ordered,        \* history: no frame so far had a start_pts below the last
  ocr_text,       \* char *text of a do_ocr call taken on its own
  sub_image       \* image, inverter and the .pgm of a loop body on its own

vars == <<pc, exit_code, max_threads, dumb, nread, last_start_pts, sub_counter,
          cur, threads, ocr_thread, i, tasks, mut, conv_subs, srt, engines,
          fate, run, processed, reordered, oob_read, example, pts, buf, script,
          ordered, ocr_text, sub_image>>

NoFrame == Frame(0, 0, 0, 0)

\* ------------------------------------------------------------------ helpers
\* size_t size = strlen(text);
\* while (size > 0 and isspace(text[--size])) text[size] = '\0';
isspace(c) == c \in {" ", "\n", "\t", "\r"}

RECURSIVE TrimTrailing(_)
TrimTrailing(s) ==
  IF Len(s) > 0 /\ isspace(s[Len(s)])
    THEN TrimTrailing(SubSeq(s, 1, Len(s) - 1))
    ELSE s

\* mutant of sort_fct: the results are compared by start_pts
sort_fct_start(a, b) == a.start_pts < b.start_pts

\* struct sort_fct: a.counter < b.counter
sort_fct(a, b) == a.counter < b.counter

\* std::sort(conv_subs.begin(), conv_subs.end(), sort_fct)
RECURSIVE InsertSorted(_, _)
InsertSorted(x, s) ==
  IF s = <<>> THEN <<x>>
  ELSE IF sort_fct(x, Head(s)) THEN <<x>> \o s
  ELSE <<Head(s)>> \o InsertSorted(x, Tail(s))

RECURSIVE SortSubs(_)
SortSubs(s) ==
  IF s = <<>> THEN <<>> ELSE InsertSorted(Head(s), SortSubs(Tail(s)))

\* ----------------------------------------------------------------- pts2srt
\* The value of an unsigned u is 65536 * High(u) + Low(u), both in 0..65535.
High(u) == IF u >= 0 THEN u \div 65536 ELSE 65536 + (u \div 65536)
Low(u) == u % 65536

\* mutant of UDiv90: the remainder of the upper half is dropped
UDiv90NoCarry(u) == (High(u) \div 90) * 65536 + (Low(u) \div 90)

\* unsigned ms = pts / 90;  the quotient is below 2^26, the division is done
\* on the two halves of pts
UDiv90(u) ==
  (High(u) \div 90) * 65536 + (((High(u) % 90) * 65536 + Low(u)) \div 90)

\* the locals h, m, s and ms of pts2srt as they are when snprintf is called;
\* every product and difference is at most pts / 90 < 2^26, so that the
\* unsigned arithmetic of the source never wraps
pts2srt_locals(t) ==
  LET ms0 == UDiv90(t)
      h   == ms0 \div (3600 * 1000)
      ms1 == ms0 - h * 3600 * 1000
      m   == ms1 \div (60 * 1000)
      ms2 == ms1 - m * 60 * 1000
      s   == ms2 \div 1000
      ms  == ms2 % 1000
  IN  [h |-> h, m |-> m, s |-> s, ms |-> ms]

\* the decimal digits of a number that is not negative
DigitChar(d) == <<"0", "1", "2", "3", "4", "5", "6", "7", "8", "9">>[d + 1]

RECURSIVE Decimal(_)
Decimal(n) ==
  IF n < 10 THEN <<DigitChar(n)>>
  ELSE Decimal(n \div 10) \o <<DigitChar(n % 10)>>

\* the conversion %0<width>d of a value that is not negative: zeros are put
\* in front up to the width, a longer number is written in full
RECURSIVE ZeroPad(_, _)
ZeroPad(digits, width) ==
  IF Len(digits) >= width THEN digits ELSE ZeroPad(<<"0">> \o digits, width)

PrintD(n, width) == ZeroPad(Decimal(n), width)

\* enum { length = 4 * sizeof(h) }; char buf[length];
length == 16

\* snprintf(buf, n, ...) keeps at most n - 1 characters of the output
snprintf(n, out) == SubSeq(out, 1, IF Len(out) < n - 1 THEN Len(out) ELSE n - 1)

\* snprintf(buf, length, "%02d:%02d:%02d,%03d", h, m, s, ms)
pts2srt(t) ==
  LET l == pts2srt_locals(t)
  IN  snprintf(length,
               PrintD(l.h, 2) \o <<":">> \o PrintD(l.m, 2) \o <<":">>
                 \o PrintD(l.s, 2) \o <<",">> \o PrintD(l.ms, 3))

\* the conversion %s of fprintf: the characters of the string; for a NULL
\* pointer the C library writes "(null)"
PrintS(text) ==
  IF text.null THEN <<"(", "n", "u", "l", "l", ")">> ELSE text.str

\* the end of a C string
NUL == ""

\* no do_ocr call is taken on its own
NoText == [pc |-> "none", returned |-> <<>>, str |-> <<NUL>>, lowest |-> 0]

\* no loop body is taken on its own
NoImage ==
  [pc |-> "none", dump_images |-> FALSE, width |-> 0, stride |-> 1,
   delivered |-> <<>>, decoder |-> <<>>, image |-> "none",
   inverted_image |-> <<>>, pgm |-> <<>>]

\* the script before it is run
NoScript ==
  [pc |-> "none", MuxToMkv |-> FALSE, SkipIfNoSubtitles |-> FALSE,
   VobSubStreamLanguage |-> <<>>, TesseractOcrLanguage |-> <<>>,
   TrackLanguageFilter |-> <<>>, fileExt |-> "mkv",
   finalFilteredTracks |-> <<>>, i |-> 0,
   srtFilesDataForProcessing |-> <<>>, vobsubArgs |-> <<>>,
   srtFilePathInTemp |-> FALSE, muxed |-> FALSE, muxFailed |-> FALSE,
   createdCount |-> 0, skipped |-> FALSE, result |-> 0]

\* -------------------------------------------------------------------- Init
Init ==
  /\ pc = "open"
  /\ exit_code = NotReturned
  /\ max_threads \in 0..MaxThreads
  /\ dumb \in BOOLEAN
  /\ nread = 0
  /\ last_start_pts = 0
  /\ sub_counter = 1
  /\ cur = NoFrame
  /\ threads = <<>>
  /\ ocr_thread = -1
  /\ i = 0
  /\ tasks = <<>>
  /\ mut = 0
  /\ conv_subs = <<>>
  /\ srt = <<>>
  /\ engines = <<>>
  /\ fate = "none"
  /\ run = 0
  /\ processed = 0
  /\ reordered = FALSE
  /\ oob_read = FALSE
  /\ example = 0
  /\ pts = 0
  /\ buf = <<>>
  /\ script = NoScript
  /\ ordered = TRUE
  /\ ocr_text = NoText
  /\ sub_image = NoImage

\* ---------------------------------------------------- opening the output
\* mutant of OpenSrtFail: srtout is tested in the read loop
OpenSrtFailLate ==
  /\ pc = "read"
  /\ pc' = "exit"
  /\ exit_code' = 1
  /\ UNCHANGED <<max_threads, dumb, nread, last_start_pts, sub_counter, cur,
                 threads, ocr_thread, i, tasks, mut, conv_subs, srt, engines,
                 fate, run, processed, reordered, oob_read, pts, buf, example,
                 script, ordered, ocr_text, sub_image>>

\* FILE *srtout = fopen(...); if (!srtout) return 1;
OpenSrtFail ==
  /\ pc = "open"
  /\ pc' = "exit"
  /\ exit_code' = 1
  /\ UNCHANGED <<max_threads, dumb, nread, last_start_pts, sub_counter, cur,
                 threads, ocr_thread, i, tasks, mut, conv_subs, srt, engines,
                 fate, run, processed, reordered, oob_read, pts, buf, example,
                 script, ordered, ocr_text, sub_image>>

\* fopen succeeds; if (max_threads <= 0) max_threads = hardware_concurrency()
OpenSrtOk ==
  /\ pc = "open"
  /\ \E hw \in 0..MaxThreads :
       max_threads' = IF max_threads <= 0 THEN hw ELSE max_threads
  /\ pc' = "read"
  /\ UNCHANGED <<exit_code, dumb, nread, last_start_pts, sub_counter, cur,
                 threads, ocr_thread, i, tasks, mut, conv_subs, srt, engines,
                 fate, run, processed, reordered, oob_read, pts, buf, example,
                 script, ordered, ocr_text, sub_image>>

\* ------------------------------------------------------------ the read loop
\* mutant of IsDuplicate: the duplicate test is left out
IsDuplicateNever(f) == FALSE

\* if (start_pts == last_start_pts) continue;
IsDuplicate(f) == f.start_pts = last_start_pts

\* mutant of TooSmall: && in place of ||
TooSmallBoth(f) == f.width < min_width /\ f.height < min_height

\* if (width < (unsigned)min_width || height < (unsigned)min_height) continue;
TooSmall(f) == f.width < min_width \/ f.height < min_height

\* history: the frame f follows cur; passed tells whether it passed the
\* duplicate test
Deliver(f, what, passed) ==
  /\ cur' = f
  /\ nread' = nread + 1
  /\ fate' = what
  /\ run' = IF nread > 0 /\ f.start_pts = cur.start_pts THEN run + 1 ELSE 1
  /\ processed' = (IF nread > 0 /\ f.start_pts = cur.start_pts
                     THEN processed ELSE 0) + (IF passed THEN 1 ELSE 0)
  /\ example' = IF /\ example = nread
                   /\ nread < Len(ExampleStream)
                   /\ f = ExampleStream[nread + 1]
                  THEN example + 1 ELSE -1
  /\ ordered' = (ordered /\ (nread = 0 \/ f.start_pts >= cur.start_pts))

\* vobsub_get_next_packet(...) <= 0 : the loop ends
ReadEnd ==
  /\ pc = "read"
  /\ pc' = "drain"
  /\ i' = 0
  /\ UNCHANGED <<exit_code, max_threads, dumb, nread, last_start_pts,
                 sub_counter, cur, threads, ocr_thread, tasks, mut, conv_subs,
                 srt, engines, fate, run, processed, reordered, oob_read, pts,
                 buf, example, script, ordered, ocr_text, sub_image>>

\* spudec_get_data(...); start_pts == last_start_pts: continue
ReadDuplicate ==
  /\ pc = "read"
  /\ nread < MaxFrames
  /\ \E f \in Frames :
       /\ IsDuplicate(f)
       /\ Deliver(f, "duplicate", FALSE)
  /\ UNCHANGED <<pc, exit_code, max_threads, dumb, last_start_pts, sub_counter,
                 threads, ocr_thread, i, tasks, mut, conv_subs, srt, engines,
                 reordered, oob_read, pts, buf, script, ocr_text, sub_image>>

\* mutant of ReadTooSmall: a frame that is too small uses up a counter
ReadTooSmallCounted ==
  /\ pc = "read"
  /\ nread < MaxFrames
  /\ \E f \in Frames :
       /\ ~IsDuplicate(f)
       /\ TooSmall(f)
       /\ last_start_pts' = f.start_pts
       /\ Deliver(f, "too_small", TRUE)
  /\ sub_counter' = sub_counter + 1
  /\ UNCHANGED <<pc, exit_code, max_threads, dumb, threads, ocr_thread, i,
                 tasks, mut, conv_subs, srt, engines, reordered, oob_read, pts,
                 buf, script, ocr_text, sub_image>>

\* last_start_pts = start_pts; the image is too small: continue
ReadTooSmall ==
  /\ pc = "read"
  /\ nread < MaxFrames
  /\ \E f \in Frames :
       /\ ~IsDuplicate(f)
       /\ TooSmall(f)
       /\ last_start_pts' = f.start_pts
       /\ Deliver(f, "too_small", TRUE)
  /\ UNCHANGED <<pc, exit_code, max_threads, dumb, sub_counter, threads,
                 ocr_thread, i, tasks, mut, conv_subs, srt, engines, reordered,
                 oob_read, pts, buf, script, ocr_text, sub_image>>

\* last_start_pts = start_pts; the image goes on to the dispatcher
ReadAccept ==
  /\ pc = "read"
  /\ nread < MaxFrames
  /\ \E f \in Frames :
       /\ ~IsDuplicate(f)
       /\ ~TooSmall(f)
       /\ last_start_pts' = f.start_pts
       /\ Deliver(f, "accepted", TRUE)
  /\ ocr_thread' = -1
  /\ pc' = "dispatch"
  /\ UNCHANGED <<exit_code, max_threads, dumb, sub_counter, threads, i, tasks,
                 mut, conv_subs, srt, engines, reordered, oob_read, pts, buf,
                 script, ocr_text, sub_image>>

\* ------------------------------------------------------------ the dispatcher
\* mutant of HasCapacity: <= in place of <
HasCapacityOffByOne == Len(threads) <= max_threads

\* threads.size() < static_cast<unsigned>(max_threads)
HasCapacity == Len(threads) < max_threads

\* mutant of NewOcrThread: every slot is given the engine made first
NewOcrThreadFirstEngine(api) == [t |-> 0, done |-> FALSE, tess_base_api |-> 1]

\* new ocr_thread_t(tess_base_api): t = NULL, done = false
NewOcrThread(api) == [t |-> 0, done |-> FALSE, tess_base_api |-> api]

\* the arguments of the do_ocr call for the current frame on a slot, its
\* position and its local text; image is what memcpy put behind image_cpy,
\* recognized the image TesseractRect was run on (history)
NewTask(slot, api, inline) ==
  [tess_base_api |-> api,
   done |-> slot,
   counter |-> sub_counter,
   start_pts |-> cur.start_pts,
   end_pts |-> cur.end_pts,
   width |-> cur.width,
   height |-> cur.height,
   image_cpy |-> "allocated",
   image |-> cur,
   recognized |-> NoFrame,
   text |-> NULL,
   inline |-> inline,
   pc |-> "ocr"]

\* mutant of RunsInline: do_ocr is always given a thread of its own
RunsInlineNever == FALSE

\* if (max_threads == 1) do_ocr(...); else ... new thread(do_ocr, ...)
RunsInline == max_threads = 1

\* image_cpy = malloc + memcpy; then, on slot `slot` of the vector `slots`,
\*   if (max_threads == 1) do_ocr(...) inline
\*   else { ocr_thread->done = false; ocr_thread->t = new thread(do_ocr, ...) }
\*   ++sub_counter;   (after do_ocr has returned in the inline case)
StartTask(slot, slots) ==
  /\ ocr_thread' = slot
  /\ tasks' = Append(tasks, NewTask(slot, slots[slot + 1].tess_base_api,
                                    RunsInline))
  /\ IF RunsInline
       THEN /\ threads' = slots
            /\ pc' = "inline"
            /\ UNCHANGED sub_counter
       ELSE /\ threads' = [slots EXCEPT ![slot + 1].done = FALSE,
                                        ![slot + 1].t = Len(tasks) + 1]
            /\ sub_counter' = sub_counter + 1
            /\ pc' = "read"

\* init_tesseract() returns an engine: a new slot is pushed and used
NewSlot ==
  /\ pc = "dispatch"
  /\ HasCapacity
  /\ engines' = Append(engines, "live")
  /\ StartTask(Len(threads),
               Append(threads, NewOcrThread(Len(engines) + 1)))
  /\ UNCHANGED <<exit_code, max_threads, dumb, nread, last_start_pts, cur, i,
                 mut, conv_subs, srt, fate, run, processed, reordered,
                 oob_read, pts, buf, example, script, ordered, ocr_text,
                 sub_image>>

\* mutant of NewSlotFail: the frame is dropped and the loop goes on
NewSlotFailSkipsFrame ==
  /\ pc = "dispatch"
  /\ HasCapacity
  /\ pc' = "read"
  /\ UNCHANGED <<exit_code, max_threads, dumb, nread, last_start_pts,
                 sub_counter, cur, threads, ocr_thread, i, tasks, mut,
                 conv_subs, srt, engines, fate, run, processed, reordered,
                 oob_read, pts, buf, example, script, ordered, ocr_text,
                 sub_image>>

\* init_tesseract() returns NULL: return -1
NewSlotFail ==
  /\ pc = "dispatch"
  /\ HasCapacity
  /\ pc' = "exit"
  /\ exit_code' = -1
  /\ UNCHANGED <<max_threads, dumb, nread, last_start_pts, sub_counter, cur,
                 threads, ocr_thread, i, tasks, mut, conv_subs, srt, engines,
                 fate, run, processed, reordered, oob_read, pts, buf, example,
                 script, ordered, ocr_text, sub_image>>

\* else if (max_threads == 1) ocr_thread = threads[0];
ReuseSync ==
  /\ pc = "dispatch"
  /\ ~HasCapacity
  /\ max_threads = 1
  /\ StartTask(0, threads)
  /\ UNCHANGED <<exit_code, max_threads, dumb, nread, last_start_pts, cur, i,
                 mut, conv_subs, srt, engines, fate, run, processed, reordered,
                 oob_read, pts, buf, example, script, ordered, ocr_text,
                 sub_image>>

\* else { while (ocr_thread == NULL) { for (i = 0; ...
EnterPoll ==
  /\ pc = "dispatch"
  /\ ~HasCapacity
  /\ max_threads # 1
  /\ i' = 0
  /\ pc' = "poll"
  /\ UNCHANGED <<exit_code, max_threads, dumb, nread, last_start_pts,
                 sub_counter, cur, threads, ocr_thread, tasks, mut, conv_subs,
                 srt, engines, fate, run, processed, reordered, oob_read, pts,
                 buf, example, script, ordered, ocr_text, sub_image>>

\* mutant of SlotDone: the flag is never seen set
SlotDoneNever(n) == FALSE

\* if (threads[i]->done)
SlotDone(n) == threads[n + 1].done

\* mutant of Joinable: the join is left out and nothing is waited for
JoinableAlways(t) == TRUE

\* thread::join() returns once the thread function has returned
Joinable(t) == tasks[t].pc = "finished"

\* mutant of FoundSlot: threads[0] is taken whichever slot was found done
FoundSlotFirst(n) == 0

\* ocr_thread = threads[i];
FoundSlot(n) == n

\* mutant of Join: the thread is deleted without being joined
JoinNot(ts, t) == ts

\* t->join(); delete t; for the thread of the do_ocr call t
Join(ts, t) == [ts EXCEPT ![t].pc = "joined"]

\* threads[i]->done is false: i++
PollNext ==
  /\ pc = "poll"
  /\ i < Len(threads)
  /\ ~SlotDone(i)
  /\ i' = i + 1
  /\ UNCHANGED <<pc, exit_code, max_threads, dumb, nread, last_start_pts,
                 sub_counter, cur, threads, ocr_thread, tasks, mut, conv_subs,
                 srt, engines, fate, run, processed, reordered, oob_read, pts,
                 buf, example, script, ordered, ocr_text, sub_image>>

\* mutant of PollFound: the slot is taken without a look at its flag
PollFoundUnseen ==
  /\ pc = "poll"
  /\ i < Len(threads)
  /\ pc' = "poll_join"
  /\ UNCHANGED <<exit_code, max_threads, dumb, nread, last_start_pts,
                 sub_counter, cur, threads, ocr_thread, i, tasks, mut,
                 conv_subs, srt, engines, fate, run, processed, reordered,
                 oob_read, pts, buf, example, script, ordered, ocr_text,
                 sub_image>>

\* threads[i]->done is true: go on to threads[i]->t->join()
PollFound ==
  /\ pc = "poll"
  /\ i < Len(threads)
  /\ SlotDone(i)
  /\ pc' = "poll_join"
  /\ UNCHANGED <<exit_code, max_threads, dumb, nread, last_start_pts,
                 sub_counter, cur, threads, ocr_thread, i, tasks, mut,
                 conv_subs, srt, engines, fate, run, processed, reordered,
                 oob_read, pts, buf, example, script, ordered, ocr_text,
                 sub_image>>

\* threads[i]->t->join() returns; delete threads[i]->t;
\* ocr_thread = threads[i]; break; and the new task is started on the slot
PollJoin ==
  /\ pc = "poll_join"
  /\ Joinable(threads[i + 1].t)
  /\ LET joined == Join(tasks, threads[i + 1].t)
         slot == FoundSlot(i)
     IN  /\ ocr_thread' = slot
         /\ tasks' = Append(joined,
                            NewTask(slot, threads[slot + 1].tess_base_api,
                                    FALSE))
         /\ threads' = [threads EXCEPT ![slot + 1].done = FALSE,
                                       ![slot + 1].t = Len(tasks) + 1]
  /\ sub_counter' = sub_counter + 1
  /\ pc' = "read"
  /\ UNCHANGED <<exit_code, max_threads, dumb, nread, last_start_pts, cur, i,
                 mut, conv_subs, srt, engines, fate, run, processed, reordered,
                 oob_read, pts, buf, example, script, ordered, ocr_text,
                 sub_image>>

\* the for loop ended with ocr_thread == NULL: usleep(50) and scan again
PollSleep ==
  /\ pc = "poll"
  /\ i >= Len(threads)
  /\ i' = 0
  /\ UNCHANGED <<pc, exit_code, max_threads, dumb, nread, last_start_pts,
                 sub_counter, cur, threads, ocr_thread, tasks, mut, conv_subs,
                 srt, engines, fate, run, processed, reordered, oob_read, pts,
                 buf, example, script, ordered, ocr_text, sub_image>>

\* --------------------------------------------------------------- do_ocr
TaskIds == 1..Len(tasks)

\* mutant of sub_text_t: the result of a failed recognition loses its counter
sub_text_t_failed(counter, start_pts, end_pts, text) ==
  [counter |-> IF text.null THEN 0 ELSE counter, start_pts |-> start_pts,
   end_pts |-> end_pts, text |-> text]

\* sub_text_t(counter, start_pts, end_pts, text)
sub_text_t(counter, start_pts, end_pts, text) ==
  [counter |-> counter, start_pts |-> start_pts, end_pts |-> end_pts,
   text |-> text]

\* the do_ocr calls whose TesseractRect call has returned NULL
OcrFailures ==
  Cardinality({k \in TaskIds : tasks[k].pc # "ocr" /\ tasks[k].text.null})

\* mutant of ImageRead: TesseractRect is given the decoder's buffer
ImageReadShared(k) == cur

\* TesseractRect(image_cpy, ...) reads the copy made for this call
ImageRead(k) == tasks[k].image

\* the buffer of the C string s
CBuf(s) == s \o <<NUL>>

\* strlen(b)
RECURSIVE strlen(_)
strlen(b) == IF Head(b) = NUL THEN 0 ELSE 1 + strlen(Tail(b))

\* the C string in the buffer b
CString(b) == SubSeq(b, 1, strlen(b))

\* mutant of TrimLoop: if in place of while
TrimOnce(b, size, lowest) ==
  IF size > 0 /\ isspace(b[size])
    THEN [str |-> [b EXCEPT ![size] = NUL], lowest |-> size - 1]
    ELSE [str |-> b, lowest |-> IF size > 0 THEN size - 1 ELSE lowest]

\* while (size > 0 and isspace(text[--size])) text[size] = '\0';
\* b[j + 1] is text[j]; lowest is the lowest index of text read or written
RECURSIVE TrimLoop(_, _, _)
TrimLoop(b, size, lowest) ==
  IF size > 0
    THEN IF isspace(b[(size - 1) + 1])
           THEN TrimLoop([b EXCEPT ![(size - 1) + 1] = NUL],
                         size - 1, size - 1)
           ELSE [str |-> b, lowest |-> size - 1]
    ELSE [str |-> b, lowest |-> lowest]

\* size_t size = strlen(text); and the loop, on the text TesseractRect
\* returned
TrimText(returned) ==
  TrimLoop(CBuf(returned), strlen(CBuf(returned)), strlen(CBuf(returned)))

\* mutant of FreesImage: the copy is freed only with the text at hand
FreesImageOnSuccess(text) == ~text.null

\* free(image_cpy); stands before the test of text
FreesImage(text) == TRUE

\* text = tess_base_api->TesseractRect(...) returns; free(image_cpy);
\* a non-NULL text has its trailing white space cut off
Recognize(k) ==
  /\ tasks[k].pc = "ocr"
  /\ \E r \in OcrReturns :
       /\ r.null => OcrFailures < MaxOcrFailures
       /\ tasks' = [tasks EXCEPT
                   ![k].text = IF r.null THEN NULL
                               ELSE CStr(CString(TrimText(r.str).str)),
                   ![k].recognized = ImageRead(k),
                   ![k].image_cpy = IF FreesImage(r) THEN "freed" ELSE @,
                   ![k].pc = "lock"]
  /\ UNCHANGED <<pc, exit_code, max_threads, dumb, nread, last_start_pts,
                 sub_counter, cur, threads, ocr_thread, i, mut, conv_subs, srt,
                 engines, fate, run, processed, reordered, oob_read, pts, buf,
                 example, script, ordered, ocr_text, sub_image>>

\* mutant of Lock: the task goes on without waiting for the mutex
LockNoWait(k) ==
  /\ tasks[k].pc = "lock"
  /\ mut' = k
  /\ tasks' = [tasks EXCEPT ![k].pc = "push"]
  /\ UNCHANGED <<pc, exit_code, max_threads, dumb, nread, last_start_pts,
                 sub_counter, cur, threads, ocr_thread, i, conv_subs, srt,
                 engines, fate, run, processed, reordered, oob_read, pts, buf,
                 example, script, ordered, ocr_text, sub_image>>

\* mut->lock();
Lock(k) ==
  /\ tasks[k].pc = "lock"
  /\ mut = 0
  /\ mut' = k
  /\ tasks' = [tasks EXCEPT ![k].pc = "push"]
  /\ UNCHANGED <<pc, exit_code, max_threads, dumb, nread, last_start_pts,
                 sub_counter, cur, threads, ocr_thread, i, conv_subs, srt,
                 engines, fate, run, processed, reordered, oob_read, pts, buf,
                 example, script, ordered, ocr_text, sub_image>>

\* conv_subs->push_back(sub_text_t(counter, start_pts, end_pts, text));
\* mut->unlock();
PushUnlock(k) ==
  /\ tasks[k].pc = "push"
  /\ conv_subs' = Append(conv_subs,
                         sub_text_t(tasks[k].counter, tasks[k].start_pts,
                                    tasks[k].end_pts, tasks[k].text))
  /\ reordered' = (reordered \/ \E n \in 1..Len(conv_subs) :
                                   conv_subs[n].counter > tasks[k].counter)
  /\ mut' = 0
  /\ tasks' = [tasks EXCEPT ![k].pc = "store"]
  /\ UNCHANGED <<pc, exit_code, max_threads, dumb, nread, last_start_pts,
                 sub_counter, cur, threads, ocr_thread, i, srt, engines, fate,
                 run, processed, oob_read, pts, buf, example, script, ordered,
                 ocr_text, sub_image>>

\* mutant of StoreDone: done is stored before the result is appended
StoreDoneEarly(k) ==
  /\ tasks[k].pc = "lock"
  /\ ~tasks[k].inline
  /\ threads' = [threads EXCEPT ![tasks[k].done + 1].done = TRUE]
  /\ tasks' = [tasks EXCEPT ![k].pc = "finished"]
  /\ UNCHANGED <<pc, exit_code, max_threads, dumb, nread, last_start_pts,
                 sub_counter, cur, ocr_thread, i, mut, conv_subs, srt, engines,
                 fate, run, processed, reordered, oob_read, pts, buf, example,
                 script, ordered, ocr_text, sub_image>>

\* done->store(true); do_ocr returns in its own thread, which ends
StoreDone(k) ==
  /\ tasks[k].pc = "store"
  /\ ~tasks[k].inline
  /\ threads' = [threads EXCEPT ![tasks[k].done + 1].done = TRUE]
  /\ tasks' = [tasks EXCEPT ![k].pc = "finished"]
  /\ UNCHANGED <<pc, exit_code, max_threads, dumb, nread, last_start_pts,
                 sub_counter, cur, ocr_thread, i, mut, conv_subs, srt, engines,
                 fate, run, processed, reordered, oob_read, pts, buf, example,
                 script, ordered, ocr_text, sub_image>>

\* done->store(true); the inline do_ocr call returns to main: ++sub_counter
StoreDoneInline(k) ==
  /\ tasks[k].pc = "store"
  /\ tasks[k].inline
  /\ pc = "inline"
  /\ threads' = [threads EXCEPT ![tasks[k].done + 1].done = TRUE]
  /\ tasks' = [tasks EXCEPT ![k].pc = "finished"]
  /\ sub_counter' = sub_counter + 1
  /\ pc' = "read"
  /\ UNCHANGED <<exit_code, max_threads, dumb, nread, last_start_pts, cur,
                 ocr_thread, i, mut, conv_subs, srt, engines, fate, run,
                 processed, reordered, oob_read, pts, buf, example, script,
                 ordered, ocr_text, sub_image>>

\* ---------------------------------------------------------------- the drain
\* mutant of HasThread: the drain takes every slot for one without a thread
HasThreadNever(n) == FALSE

\* if (threads[i]->t != NULL)
HasThread(n) == threads[n + 1].t # 0

\* mutant of Released: the engine of the slot is left as it is
ReleasedNot(es, api) == es

\* threads[i]->tess_base_api->End(); delete threads[i]->tess_base_api;
Released(es, api) == [es EXCEPT ![api] = "deleted"]

\* if (threads[i]->t != NULL) { join; delete t; } End(); delete tess_base_api
DrainJoin ==
  /\ pc = "drain"
  /\ i < Len(threads)
  /\ HasThread(i)
  /\ Joinable(threads[i + 1].t)
  /\ tasks' = Join(tasks, threads[i + 1].t)
  /\ engines' = Released(engines, threads[i + 1].tess_base_api)
  /\ i' = i + 1
  /\ UNCHANGED <<pc, exit_code, max_threads, dumb, nread, last_start_pts,
                 sub_counter, cur, threads, ocr_thread, mut, conv_subs, srt,
                 fate, run, processed, reordered, oob_read, pts, buf, example,
                 script, ordered, ocr_text, sub_image>>

\* threads[i]->t == NULL: only End(); delete tess_base_api; delete threads[i]
DrainNoThread ==
  /\ pc = "drain"
  /\ i < Len(threads)
  /\ ~HasThread(i)
  /\ engines' = Released(engines, threads[i + 1].tess_base_api)
  /\ i' = i + 1
  /\ UNCHANGED <<pc, exit_code, max_threads, dumb, nread, last_start_pts,
                 sub_counter, cur, threads, ocr_thread, tasks, mut, conv_subs,
                 srt, fate, run, processed, reordered, oob_read, pts, buf,
                 example, script, ordered, ocr_text, sub_image>>

\* sort(conv_subs.begin(), conv_subs.end(), sort_fct);
SortResults ==
  /\ pc = "drain"
  /\ i >= Len(threads)
  /\ conv_subs' = SortSubs(conv_subs)
  /\ i' = 0
  /\ pc' = "write"
  /\ UNCHANGED <<exit_code, max_threads, dumb, nread, last_start_pts,
                 sub_counter, cur, threads, ocr_thread, tasks, mut, srt,
                 engines, fate, run, processed, reordered, oob_read, pts, buf,
                 example, script, ordered, ocr_text, sub_image>>

\* ----------------------------------------------------------- the write loop
\* mutant of NeedsRepair: --dumb without the test for a successor
NeedsRepairUnbounded(n) ==
  \/ conv_subs[n + 1].end_pts = UINT_MAX
  \/ dumb

\* conv_subs[i].end_pts == UINT_MAX || (dumb && i + 1 < conv_subs.size())
NeedsRepair(n) ==
  \/ conv_subs[n + 1].end_pts = UINT_MAX
  \/ (dumb /\ n + 1 < Len(conv_subs))

\* mutant of NextIndex: the repair reads conv_subs[i] itself
NextIndexSelf(n) == n

\* the element conv_subs[i + 1] the repair reads
NextIndex(n) == n + 1

\* fprintf(srtout, "%u\n%s --> %s\n%s\n\n", counter, start, end, text)
\* start_pts and end_pts are the time stamps handed to pts2srt
SrtRecord(r, end_pts) ==
  [counter |-> r.counter, start_pts |-> r.start_pts, end_pts |-> end_pts,
   start |-> pts2srt(r.start_pts), end |-> pts2srt(end_pts),
   text |-> PrintS(r.text)]

\* writes record i with the given end_pts; delete[] text; text = 0x0
Emit(end_pts) ==
  /\ srt' = Append(srt, SrtRecord(conv_subs[i + 1], end_pts))
  /\ conv_subs' = [conv_subs EXCEPT ![i + 1].end_pts = end_pts,
                                    ![i + 1].text = NULL]
  /\ i' = i + 1

\* the repair condition is false: the record is written as it is
WriteKeep ==
  /\ pc = "write"
  /\ i < Len(conv_subs)
  /\ ~NeedsRepair(i)
  /\ Emit(conv_subs[i + 1].end_pts)
  /\ UNCHANGED <<pc, exit_code, max_threads, dumb, nread, last_start_pts,
                 sub_counter, cur, threads, ocr_thread, tasks, mut, engines,
                 fate, run, processed, reordered, oob_read, pts, buf, example,
                 script, ordered, ocr_text, sub_image>>

\* conv_subs[i].end_pts = conv_subs[i + 1].start_pts, element i + 1 exists
WriteRepair ==
  /\ pc = "write"
  /\ i < Len(conv_subs)
  /\ NeedsRepair(i)
  /\ NextIndex(i) < Len(conv_subs)
  /\ Emit(conv_subs[NextIndex(i) + 1].start_pts)
  /\ UNCHANGED <<pc, exit_code, max_threads, dumb, nread, last_start_pts,
                 sub_counter, cur, threads, ocr_thread, tasks, mut, engines,
                 fate, run, processed, reordered, oob_read, pts, buf, example,
                 script, ordered, ocr_text, sub_image>>

\* conv_subs[i].end_pts = conv_subs[i + 1].start_pts with i + 1 == size():
\* the read is past the last element and yields an indeterminate value
WriteRepairPastEnd ==
  /\ pc = "write"
  /\ i < Len(conv_subs)
  /\ NeedsRepair(i)
  /\ NextIndex(i) >= Len(conv_subs)
  /\ \E v \in IndeterminateValues : Emit(v)
  /\ oob_read' = TRUE
  /\ UNCHANGED <<pc, exit_code, max_threads, dumb, nread, last_start_pts,
                 sub_counter, cur, threads, ocr_thread, tasks, mut, engines,
                 fate, run, processed, reordered, pts, buf, example, script,
                 ordered, ocr_text, sub_image>>

\* fclose(srtout); main returns 0
CloseSrt ==
  /\ pc = "write"
  /\ i >= Len(conv_subs)
  /\ pc' = "done"
  /\ exit_code' = 0
  /\ UNCHANGED <<max_threads, dumb, nread, last_start_pts, sub_counter, cur,
                 threads, ocr_thread, i, tasks, mut, conv_subs, srt, engines,
                 fate, run, processed, reordered, oob_read, pts, buf, example,
                 script, ordered, ocr_text, sub_image>>

\* ------------------------------------------------------------ specification
Next ==
  \/ OpenSrtFail
  \/ OpenSrtOk
  \/ ReadEnd
  \/ ReadDuplicate
  \/ ReadTooSmall
  \/ ReadAccept
  \/ NewSlot
  \/ NewSlotFail
  \/ ReuseSync
  \/ EnterPoll
  \/ PollNext
  \/ PollFound
  \/ PollJoin
  \/ PollSleep
  \/ \E k \in TaskIds : Recognize(k)
  \/ \E k \in TaskIds : Lock(k)
  \/ \E k \in TaskIds : PushUnlock(k)
  \/ \E k \in TaskIds : StoreDone(k)
  \/ \E k \in TaskIds : StoreDoneInline(k)
  \/ DrainJoin
  \/ DrainNoThread
  \/ SortResults
  \/ WriteKeep
  \/ WriteRepair
  \/ WriteRepairPastEnd
  \/ CloseSrt

Spec == Init /\ [][Next]_vars

\* ------------------------------------------------------------- scheduling
\* a step of main()
MainStep ==
  \/ OpenSrtFail \/ OpenSrtOk
  \/ ReadEnd \/ ReadDuplicate \/ ReadTooSmall \/ ReadAccept
  \/ NewSlot \/ NewSlotFail \/ ReuseSync \/ EnterPoll
  \/ PollNext \/ PollFound \/ PollJoin \/ PollSleep
  \/ DrainJoin \/ DrainNoThread \/ SortResults
  \/ WriteKeep \/ WriteRepair \/ WriteRepairPastEnd \/ CloseSrt

\* a step of the do_ocr call k
TaskStep(k) ==
  /\ k \in TaskIds
  /\ \/ Recognize(k) \/ Lock(k) \/ PushUnlock(k)
     \/ StoreDone(k) \/ StoreDoneInline(k)

\* main() keeps being scheduled, and so does some do_ocr thread as long as
\* one of them can take a step; each call they make (TesseractRect, lock,
\* join, usleep) returns once it can
LiveSpec ==
  /\ Spec
  /\ WF_vars(MainStep)
  /\ WF_vars(\E k \in 1..MaxFrames : TaskStep(k))

\* ------------------------------------------------------- pts2srt on its own
\* the time stamps pts2srt is called with: 65536 * high + low as a 32-bit
\* pattern, around the changes of second, minute and hour, and at both ends
\* of the unsigned and of the signed range
PtsHigh == {0, 1, 82, 4943, 32767, -32768, -1}
PtsLow == {0, 89, 90, 24463, 24464, 26047, 26048, 55551, 55552, 65535}
PtsInputs == {hi * 65536 + lo : hi \in PtsHigh, lo \in PtsLow}

PtsInit ==
  /\ pc = "pts2srt"
  /\ pts \in PtsInputs
  /\ buf = <<>>
  /\ script = NoScript
  /\ ordered = TRUE
  /\ ocr_text = NoText
  /\ sub_image = NoImage
  /\ exit_code = NotReturned
  /\ max_threads = 0
  /\ dumb = FALSE
  /\ nread = 0
  /\ last_start_pts = 0
  /\ sub_counter = 1
  /\ cur = NoFrame
  /\ threads = <<>>
  /\ ocr_thread = -1
  /\ i = 0
  /\ tasks = <<>>
  /\ mut = 0
  /\ conv_subs = <<>>
  /\ srt = <<>>
  /\ engines = <<>>
  /\ fate = "none"
  /\ run = 0
  /\ processed = 0
  /\ reordered = FALSE
  /\ oob_read = FALSE
  /\ example = 0

\* std::string pts2srt(unsigned pts): the string made from buf is returned
Pts2SrtCall ==
  /\ pc = "pts2srt"
  /\ buf' = pts2srt(pts)
  /\ pc' = "returned"
  /\ UNCHANGED <<exit_code, max_threads, dumb, nread, last_start_pts,
                 sub_counter, cur, threads, ocr_thread, i, tasks, mut,
                 conv_subs, srt, engines, fate, run, processed, reordered,
                 oob_read, example, pts, script, ordered, ocr_text, sub_image>>

PtsNext == Pts2SrtCall

PtsSpec == PtsInit /\ [][PtsNext]_vars

\* ----------------------------------------- the trim of do_ocr on its own
\* the variables of main() and of the other calls while one function is
\* taken on its own
ProgramIdle ==
  /\ exit_code = NotReturned
  /\ max_threads = 0
  /\ dumb = FALSE
  /\ nread = 0
  /\ last_start_pts = 0
  /\ sub_counter = 1
  /\ cur = NoFrame
  /\ threads = <<>>
  /\ ocr_thread = -1
  /\ i = 0
  /\ tasks = <<>>
  /\ mut = 0
  /\ conv_subs = <<>>
  /\ srt = <<>>
  /\ engines = <<>>
  /\ fate = "none"
  /\ run = 0
  /\ processed = 0
  /\ reordered = FALSE
  /\ oob_read = FALSE
  /\ example = 0
  /\ pts = 0
  /\ buf = <<>>
  /\ script = NoScript
  /\ ordered = TRUE

\* the characters of the texts: a letter and two kinds of white space
TextChars == {"a", " ", "\n"}

\* what TesseractRect may return: every text of up to MaxText characters
Texts == UNION {[1..n -> TextChars] : n \in 0..MaxText}

\* do_ocr has a text from TesseractRect
TrimInit ==
  /\ pc = "do_ocr"
  /\ \E t \in Texts :
       ocr_text = [pc |-> "text", returned |-> t, str |-> CBuf(t),
                   lowest |-> Len(t)]
  /\ sub_image = NoImage
  /\ ProgramIdle

\* else { size_t size = strlen(text); while (...) text[size] = '\0'; }
TrimCall ==
  /\ ocr_text.pc = "text"
  /\ ocr_text' = [ocr_text EXCEPT
                    !.pc = "trimmed",
                    !.str = TrimText(ocr_text.returned).str,
                    !.lowest = TrimText(ocr_text.returned).lowest]
  /\ UNCHANGED <<pc, exit_code, max_threads, dumb, nread, last_start_pts,
                 sub_counter, cur, threads, ocr_thread, i, tasks, mut,
                 conv_subs, srt, engines, fate, run, processed, reordered,
                 oob_read, example, pts, buf, script, ordered, sub_image>>

TrimNext == TrimCall

TrimSpec == TrimInit /\ [][TrimNext]_vars

\* ------------------------------ inversion and dump of a frame on its own
\* the values of a pixel explored: both sides of the threshold of the
\* inverter, black and white
Bytes == {0, 126, 127, 255}

\* inverted_image[i] = ((255 - image[i]) > 0x80) ? 0xff : 0;
InvertedByte(b) == IF 255 - b > 128 THEN 255 ELSE 0

\* ImageInverter(image, image_size): a new array, filled byte by byte
ImageInverter(image) == [j \in DOMAIN image |-> InvertedByte(image[j])]

\* dump_pgm: for (i = 0; i < image_size; i += stride)
\*             fwrite(image + i, 1, width, pgm);   the bytes after the header
RECURSIVE dump_pgm(_, _, _, _)
dump_pgm(image, n, width, stride) ==
  IF n < Len(image)
    THEN SubSeq(image, n + 1, n + width)
         \o dump_pgm(image, n + stride, width, stride)
    ELSE <<>>

\* the bytes behind the pointer image of main()
ImageBytes(s) == IF s.image = "decoder" THEN s.decoder ELSE s.inverted_image

\* spudec_get_data has delivered an image of rows of stride bytes, of which
\* width are pixels; the frame has passed the duplicate test and the size gate
DumpInit ==
  /\ pc = "invert"
  /\ \E n \in 0..MaxImage, stride \in 1..MaxImage, dump \in BOOLEAN :
       \E width \in 1..stride, bytes \in [1..n -> Bytes] :
         /\ n % stride = 0
         /\ sub_image = [NoImage EXCEPT
                           !.pc = "invert", !.dump_images = dump,
                           !.width = width, !.stride = stride,
                           !.delivered = bytes, !.decoder = bytes,
                           !.image = "decoder"]
  /\ ocr_text = NoText
  /\ ProgramIdle

\* what the steps of the loop body leave alone
DumpUnchanged ==
  UNCHANGED <<pc, exit_code, max_threads, dumb, nread, last_start_pts,
              sub_counter, cur, threads, ocr_thread, i, tasks, mut, conv_subs,
              srt, engines, fate, run, processed, reordered, oob_read,
              example, pts, buf, script, ordered, ocr_text>>

\* ImageInverter inverter(image, image_size);
\* image = inverter.inverted_image;
InvertImage ==
  /\ sub_image.pc = "invert"
  /\ sub_image' = [sub_image EXCEPT
                     !.inverted_image = ImageInverter(ImageBytes(sub_image)),
                     !.image = "inverted",
                     !.pc = "dump"]
  /\ DumpUnchanged

\* if (dump_images) dump_pgm(subname, sub_counter, ..., image, image_size);
DumpImage ==
  /\ sub_image.pc = "dump"
  /\ sub_image.dump_images
  /\ sub_image' = [sub_image EXCEPT
                     !.pgm = dump_pgm(ImageBytes(sub_image), 0,
                                      sub_image.width, sub_image.stride),
                     !.pc = "dispatch"]
  /\ DumpUnchanged

\* dump_images is false
SkipDump ==
  /\ sub_image.pc = "dump"
  /\ ~sub_image.dump_images
  /\ sub_image' = [sub_image EXCEPT !.pc = "dispatch"]
  /\ DumpUnchanged

DumpNext ==
  \/ InvertImage
  \/ DumpImage
  \/ SkipDump

DumpSpec == DumpInit /\ [][DumpNext]_vars

\* ------------------------------------------- the FileFlows function Script
\* A string of the script is the sequence of its characters.
ENG == <<"e", "n", "g">>
UND == <<"u", "n", "d">>
GER == <<"g", "e", "r">>

\* String.prototype.trim
RECURSIVE TrimLeading(_)
TrimLeading(str) ==
  IF Len(str) > 0 /\ isspace(str[1]) THEN TrimLeading(Tail(str)) ELSE str

trim(str) == TrimLeading(TrimTrailing(str))

\* str.substring(0, n)
substring(str, n) == SubSeq(str, 1, IF Len(str) < n THEN Len(str) ELSE n)

\* a || b for two strings: the empty string counts as false
OrElse(a, b) == IF a # <<>> THEN a ELSE b

\* the values of VobSubStreamLanguage and TesseractOcrLanguage: none, a code
\* of two letters, a code of three letters
LanguageParams == {<<>>, <<"d", "e">>, GER}
\* the values of TrackLanguageFilter: none, or one language
FilterParams == {<<>>, ENG}
\* track.language as processMkvFile takes it from mkvmerge
TrackLanguages == {UND, GER, ENG}
\* the extension of Flow.WorkingFile
FileExts == {"mkv", "idx", "avi"}

\* vobSubTracksFound: up to MaxTracks tracks, the id is the position
TracksFound ==
  UNION {[1..n -> TrackLanguages] : n \in 0..MaxTracks}

Track(id, language) == [id |-> id, language |-> language]

\* every variable of main() and of pts2srt
program_vars ==
  <<pc, exit_code, max_threads, dumb, nread, last_start_pts, sub_counter, cur,
    threads, ocr_thread, i, tasks, mut, conv_subs, srt, engines, fate, run,
    processed, reordered, oob_read, example, pts, buf, ordered, ocr_text,
    sub_image>>

\* mkvTrackLangFilterArray: the codes of TrackLanguageFilter
mkvTrackLangFilterArray ==
  IF trim(script.TrackLanguageFilter) = <<>> THEN {}
  ELSE {trim(script.TrackLanguageFilter)}

\* the filter of continueProcessingVobSubTracks: with a filter, a track
\* stays if its language or the first two letters of it are in the filter
KeepsTrack(track) ==
  \/ mkvTrackLangFilterArray = {}
  \/ track.language \in mkvTrackLangFilterArray
  \/ substring(track.language, 2) \in mkvTrackLangFilterArray

RECURSIVE FilterTracks(_)
FilterTracks(tracks_found) ==
  IF tracks_found = <<>> THEN <<>>
  ELSE IF KeepsTrack(Head(tracks_found))
    THEN <<Head(tracks_found)>> \o FilterTracks(Tail(tracks_found))
    ELSE FilterTracks(Tail(tracks_found))

\* let streamLangForVobSubTool = VobSubStreamLanguage.trim() || track.language;
\* if (streamLangForVobSubTool === "und") streamLangForVobSubTool = "";
streamLangForVobSubTool(track_language) ==
  LET l == OrElse(trim(script.VobSubStreamLanguage), track_language)
  IN  IF l = UND THEN <<>> ELSE l

\* let actualTesseractLang =
\*   TesseractOcrLanguage.trim() || streamLangForVobSubTool || "eng";
\* if (actualTesseractLang === "und" || actualTesseractLang.trim() === "")
\*   actualTesseractLang = "eng";
actualTesseractLang(stream_lang) ==
  LET a == OrElse(OrElse(trim(script.TesseractOcrLanguage), stream_lang), ENG)
  IN  IF a = UND \/ trim(a) = <<>> THEN ENG ELSE a

\* convertVobSubToSrt: the value put behind --tesseract-lang
tesseractLangForArg(tesseractOcrLangForTool) ==
  LET t == IF /\ tesseractOcrLangForTool # <<>>
              /\ trim(tesseractOcrLangForTool) # <<>>
              /\ tesseractOcrLangForTool # UND
             THEN trim(tesseractOcrLangForTool) ELSE ENG
  IN  IF Len(t) # 3 THEN ENG ELSE t

\* convertVobSubToSrt: the value put behind --lang, <<>> if it is left out
vobSubLangArg(internalStreamLang) ==
  LET l == trim(internalStreamLang)
  IN  IF l # <<>> /\ l # UND THEN substring(l, 2) ELSE <<>>

\* the language arguments of one call of vobsub2srt, with the language of
\* the track it is called for (none for a standalone .idx)
VobsubArgs(internalStreamLang, tesseractOcrLangForTool, track_language) ==
  [lang |-> vobSubLangArg(internalStreamLang),
   tesseract_lang |-> tesseractLangForArg(tesseractOcrLangForTool),
   track_language |-> track_language]

\* mutant of AnyCreated: no external SRT counts as success
AnyCreatedOrNone(createdCount) == createdCount >= 0

\* copyVobSubSrtsExternallyAndCleanup(...) > 0
AnyCreated(createdCount) == createdCount > 0

\* return v;
Return(v, now) ==
  /\ script' = [now EXCEPT !.pc = "returned", !.result = v]
  /\ UNCHANGED program_vars

\* return SkipIfNoSubtitles ? 1 : -1;
ReturnSkip ==
  Return(IF script.SkipIfNoSubtitles THEN 1 ELSE -1,
         [script EXCEPT !.skipped = script.SkipIfNoSubtitles])

\* the function Script(MuxToMkv, SkipIfNoSubtitles, VobSubStreamLanguage,
\* TesseractOcrLanguage, TrackLanguageFilter) is called on a working file
FlowInit ==
  /\ pc = "script"
  /\ \E mux \in BOOLEAN, skip \in BOOLEAN, ext \in FileExts,
        vl \in LanguageParams \cup {UND}, tl \in LanguageParams,
        flt \in FilterParams :
       script = [NoScript EXCEPT !.pc = "start", !.MuxToMkv = mux,
                   !.SkipIfNoSubtitles = skip, !.fileExt = ext,
                   !.VobSubStreamLanguage = vl, !.TesseractOcrLanguage = tl,
                   !.TrackLanguageFilter = flt]
  /\ pts = 0
  /\ buf = <<>>
  /\ exit_code = NotReturned
  /\ max_threads = 0
  /\ dumb = FALSE
  /\ nread = 0
  /\ last_start_pts = 0
  /\ sub_counter = 1
  /\ cur = NoFrame
  /\ threads = <<>>
  /\ ocr_thread = -1
  /\ i = 0
  /\ tasks = <<>>
  /\ mut = 0
  /\ conv_subs = <<>>
  /\ srt = <<>>
  /\ engines = <<>>
  /\ fate = "none"
  /\ run = 0
  /\ processed = 0
  /\ reordered = FALSE
  /\ oob_read = FALSE
  /\ example = 0
  /\ ordered = TRUE
  /\ ocr_text = NoText
  /\ sub_image = NoImage

\* mkvmerge --version exits with a code other than 0, or cannot be run
VersionCheckFail ==
  /\ script.pc = "start"
  /\ Return(-1, script)

\* the working file is neither .mkv nor .idx
UnsupportedFile ==
  /\ script.pc = "start"
  /\ script.fileExt \notin {"mkv", "idx"}
  /\ ReturnSkip

\* if (fileExt === "mkv") return processMkvFile();
EnterMkv ==
  /\ script.pc = "start"
  /\ script.fileExt = "mkv"
  /\ script' = [script EXCEPT !.pc = "identify"]
  /\ UNCHANGED program_vars

\* else if (fileExt === "idx") return processIdxFile();
EnterIdx ==
  /\ script.pc = "start"
  /\ script.fileExt = "idx"
  /\ script' = [script EXCEPT !.pc = "idx"]
  /\ UNCHANGED program_vars

\* processMkvFile: mkvmerge -i fails, or its output cannot be parsed
IdentifyFail ==
  /\ script.pc = "identify"
  /\ Return(-1, script)

\* processMkvFile finds the VobSub tracks and continueProcessingVobSubTracks
\* filters them by language
IdentifyTracks ==
  /\ script.pc = "identify"
  /\ \E languages \in TracksFound :
       LET vobSubTracksFound ==
             [id \in DOMAIN languages |-> Track(id, languages[id])]
           filtered == FilterTracks(vobSubTracksFound)
       IN  IF vobSubTracksFound = <<>> \/ filtered = <<>>
           THEN ReturnSkip
           ELSE /\ script' = [script EXCEPT !.pc = "tracks",
                                !.finalFilteredTracks = filtered, !.i = 1]
                /\ UNCHANGED program_vars

\* for (let track of finalFilteredTracks): mkvextract fails or leaves no
\* .idx and .sub behind, continue
TrackExtractFail ==
  /\ script.pc = "tracks"
  /\ script.i <= Len(script.finalFilteredTracks)
  /\ script' = [script EXCEPT !.i = @ + 1]
  /\ UNCHANGED program_vars

\* for (let track of finalFilteredTracks): the track is extracted and
\* convertVobSubToSrt runs vobsub2srt on it; converted says whether it
\* returns the path of an SRT that exists
TrackConvert ==
  /\ script.pc = "tracks"
  /\ script.i <= Len(script.finalFilteredTracks)
  /\ \E converted \in BOOLEAN :
       LET track == script.finalFilteredTracks[script.i]
           stream_lang == streamLangForVobSubTool(track.language)
           args == VobsubArgs(stream_lang, actualTesseractLang(stream_lang),
                              track.language)
       IN  script' =
             [script EXCEPT
                !.i = @ + 1,
                !.vobsubArgs = Append(@, args),
                !.srtFilesDataForProcessing =
                   IF converted THEN Append(@, track) ELSE @]
  /\ UNCHANGED program_vars

\* if (srtFilesDataForProcessing.length === 0)
\*   return finalFilteredTracks.length > 0 ? -1 : 1;
NoSrtGenerated ==
  /\ script.pc = "tracks"
  /\ script.i > Len(script.finalFilteredTracks)
  /\ script.srtFilesDataForProcessing = <<>>
  /\ Return(IF Len(script.finalFilteredTracks) > 0 THEN -1 ELSE 1, script)

\* mkvmerge exits with 0 and the muxed file exists: it becomes the working
\* file
MuxOk ==
  /\ script.pc = "tracks"
  /\ script.i > Len(script.finalFilteredTracks)
  /\ script.srtFilesDataForProcessing # <<>>
  /\ script.MuxToMkv
  /\ Return(1, [script EXCEPT !.muxed = TRUE])

\* mkvmerge fails: copyVobSubSrtsExternallyAndCleanup saves the SRTs beside
\* the original, each copy may fail
MuxFailFallback ==
  /\ script.pc = "tracks"
  /\ script.i > Len(script.finalFilteredTracks)
  /\ script.srtFilesDataForProcessing # <<>>
  /\ script.MuxToMkv
  /\ \E createdCount \in 0..Len(script.srtFilesDataForProcessing) :
       Return(IF AnyCreated(createdCount) THEN 1 ELSE -1,
              [script EXCEPT !.muxFailed = TRUE,
                             !.createdCount = createdCount])

\* MuxToMkv is off: copyVobSubSrtsExternallyAndCleanup saves the SRTs
SaveExternally ==
  /\ script.pc = "tracks"
  /\ script.i > Len(script.finalFilteredTracks)
  /\ script.srtFilesDataForProcessing # <<>>
  /\ ~script.MuxToMkv
  /\ \E createdCount \in 0..Len(script.srtFilesDataForProcessing) :
       Return(IF AnyCreated(createdCount) THEN 1 ELSE -1,
              [script EXCEPT !.createdCount = createdCount])

\* processIdxFile: the .sub is missing or the pair cannot be copied
IdxCopyInFail ==
  /\ script.pc = "idx"
  /\ Return(-1, script)

\* processIdxFile: convertVobSubToSrt runs vobsub2srt on the copied pair
IdxConvert ==
  /\ script.pc = "idx"
  /\ \E converted \in BOOLEAN :
       LET stream_lang == OrElse(trim(script.VobSubStreamLanguage), <<>>)
           args == VobsubArgs(stream_lang, actualTesseractLang(stream_lang),
                              <<>>)
           now == [script EXCEPT !.vobsubArgs = Append(@, args),
                                 !.srtFilePathInTemp = converted]
       IN  IF converted
           THEN /\ script' = [now EXCEPT !.pc = "idx_copy"]
                /\ UNCHANGED program_vars
           ELSE Return(-1, now)

\* processIdxFile: the SRT is copied beside the original .idx
IdxCopyOutOk ==
  /\ script.pc = "idx_copy"
  /\ Return(1, [script EXCEPT !.createdCount = 1])

\* processIdxFile: the copy throws
IdxCopyOutFail ==
  /\ script.pc = "idx_copy"
  /\ Return(-1, script)

FlowNext ==
  \/ VersionCheckFail
  \/ UnsupportedFile
  \/ EnterMkv
  \/ EnterIdx
  \/ IdentifyFail
  \/ IdentifyTracks
  \/ TrackExtractFail
  \/ TrackConvert
  \/ NoSrtGenerated
  \/ MuxOk
  \/ MuxFailFallback
  \/ SaveExternally
  \/ IdxCopyInFail
  \/ IdxConvert
  \/ IdxCopyOutOk
  \/ IdxCopyOutFail

FlowSpec == FlowInit /\ [][FlowNext]_vars

\* ================================================================== claims
\* the do_ocr calls whose TesseractRect call is executing
InFlight == {k \in TaskIds : tasks[k].pc = "ocr"}

\* the do_ocr calls that have not yet returned
Running == {k \in TaskIds : tasks[k].pc \notin {"finished", "joined"}}

\* the do_ocr call that was given the counter c
TaskOf(c) == CHOOSE k \in TaskIds : tasks[k].counter = c

\* the end_pts the decoder reported for the frame of record n of the output
OriginalEnd(n) == tasks[TaskOf(srt[n].counter)].end_pts

\* every slot has been drained: the joins of the drain loop are over
DrainFinished ==
  \/ pc = "drain" /\ i >= Len(threads)
  \/ pc \in {"write", "done"}

\* record n of conv_subs has been through the write loop
Written(n) == pc = "done" \/ (pc = "write" /\ n <= i)

\* C1: with a pool size N >= 1, at most N recognition calls (TesseractRect
\* on some engine) execute at the same time, in every reachable state.
C1_PoolCapacity ==
  max_threads >= 1 => Cardinality(InFlight) <= max_threads

\* C1 witness: a pool of two slots is saturated, both recognitions are
\* executing and the dispatcher is polling for a free slot with a third frame.
C1_Witness ==
  /\ max_threads = 2
  /\ Cardinality(InFlight) = 2
  /\ pc = "poll"

\* C2: an engine (tess_base_api) never has two do_ocr calls that have not
\* returned: a task is started on a slot only after the slot's previous task
\* has completed, so each handle has at most one recognize call in flight.
C2_OneCallPerHandle ==
  \A k1, k2 \in Running :
    tasks[k1].tess_base_api = tasks[k2].tess_base_api => k1 = k2

\* C2 witness: a slot has been given a second task, which is recognizing on
\* the engine of a task joined before, while another slot is still busy.
C2_Witness ==
  \E k1, k2, k3 \in TaskIds :
    /\ tasks[k1].pc = "joined"
    /\ tasks[k2].pc = "ocr"
    /\ tasks[k2].tess_base_api = tasks[k1].tess_base_api
    /\ tasks[k3].pc = "ocr"
    /\ tasks[k3].tess_base_api # tasks[k1].tess_base_api

\* C3: after the sort the results are in strictly ascending counter order
\* (so no counter occurs twice) and the records are written in that order,
\* whatever the pool size and the completion order were.
C3_SortedOutput ==
  pc \in {"write", "done"} =>
    /\ \A m, n \in 1..Len(conv_subs) :
         m < n => conv_subs[m].counter < conv_subs[n].counter
    /\ Len(srt) = (IF pc = "done" THEN Len(conv_subs) ELSE i)
    /\ \A n \in 1..Len(srt) : srt[n].counter = conv_subs[n].counter

\* C3 witness: the tasks completed out of counter order and three records
\* have been written.
C3_Witness ==
  /\ pc = "done"
  /\ reordered
  /\ Len(srt) = 3

\* C4: when the drain has finished, conv_subs holds exactly one result for
\* every do_ocr call that was started (every frame given to a slot), with
\* that frame's counter, time stamps and text, and nothing else.
C4_OneResultPerFrame ==
  DrainFinished =>
    /\ Len(conv_subs) = Len(tasks)
    /\ Len(tasks) = sub_counter - 1
    /\ \A k \in TaskIds :
         Cardinality({n \in 1..Len(conv_subs) :
            /\ conv_subs[n].counter = tasks[k].counter
            /\ conv_subs[n].start_pts = tasks[k].start_pts
            /\ (~Written(n) =>
                  conv_subs[n] = sub_text_t(tasks[k].counter,
                                            tasks[k].start_pts,
                                            tasks[k].end_pts,
                                            tasks[k].text))}) = 1

\* C4 witness: the drain has joined the threads of a pool of two slots that
\* carried three frames, which completed out of order; the sort is next.
C4_Witness ==
  /\ pc = "drain"
  /\ i >= Len(threads)
  /\ Len(threads) = 2
  /\ Len(tasks) = 3
  /\ reordered

\* C5: a result that is not the last one in counter order and whose end_pts
\* is UINT_MAX is written with the start_pts of its successor as its end.
C5_RepairFromSuccessor ==
  pc \in {"write", "done"} =>
    \A n \in 1..Len(srt) :
      (n < Len(conv_subs) /\ OriginalEnd(n) = UINT_MAX) =>
        srt[n].end_pts = conv_subs[n + 1].start_pts

\* C5 witness: a record whose frame had no known end has been written, two
\* more follow it, and the run is over.
C5_Witness ==
  /\ pc = "done"
  /\ Len(srt) = 3
  /\ OriginalEnd(1) = UINT_MAX
  /\ srt[1].end_pts = srt[2].start_pts
  /\ srt[2].start_pts # srt[1].start_pts

\* C6: the last result is never repaired from a successor: the write loop
\* reads no element behind the last one, and a last result whose end_pts is
\* UINT_MAX is written with UINT_MAX as its end.
C6_LastLeftUnrepaired ==
  /\ ~oob_read
  /\ (pc = "done" /\ Len(srt) > 0 /\ OriginalEnd(Len(srt)) = UINT_MAX) =>
       srt[Len(srt)].end_pts = UINT_MAX

\* C7: with --dumb every result but the last is written with the start_pts
\* of its successor as its end, whatever its own end_pts was, and a last
\* result with a known end keeps it; without --dumb every result with a
\* known end keeps it.
C7_ForcedRepair ==
  pc \in {"write", "done"} =>
    \A n \in 1..Len(srt) :
      /\ (dumb /\ n < Len(conv_subs)) =>
           srt[n].end_pts = conv_subs[n + 1].start_pts
      /\ (dumb /\ n = Len(conv_subs) /\ OriginalEnd(n) # UINT_MAX) =>
           srt[n].end_pts = OriginalEnd(n)
      /\ (~dumb /\ OriginalEnd(n) # UINT_MAX) =>
           srt[n].end_pts = OriginalEnd(n)

\* C7 witness: with --dumb a record with a known end was written with the
\* start of its successor instead, and the last record kept its known end.
C7_Witness ==
  /\ dumb
  /\ pc = "done"
  /\ \E n \in 1..Len(srt) - 1 :
       /\ OriginalEnd(n) # UINT_MAX
       /\ srt[n].end_pts # OriginalEnd(n)
       /\ srt[n].end_pts = srt[n + 1].start_pts
  /\ OriginalEnd(Len(srt)) # UINT_MAX
  /\ srt[Len(srt)].end_pts = OriginalEnd(Len(srt))

\* C8: of two consecutive frames with the same start_pts exactly one is
\* processed: the first passes the duplicate test, the second (and any
\* further one of the run) is skipped before the size gate and the dispatch.
C8_OneOfTwoProcessed ==
  run >= 2 => (processed = 1 /\ fate = "duplicate")

\* C9: a frame is skipped as a duplicate only if the frame before it had
\* the same start_pts, and the first frame of each run of equal start_pts
\* passes the duplicate test; so the first frame of the stream is never
\* skipped as a duplicate, whatever its start_pts.
C9_FirstOfRunProcessed ==
  /\ fate = "duplicate" => run >= 2
  /\ nread >= 1 => processed = 1

\* the frame is below the configured minimum width or height
BelowMinimum(f) == f.width < min_width \/ f.height < min_height

Failed == {k \in TaskIds : tasks[k].pc # "ocr" /\ tasks[k].text.null}

\* the do_ocr calls that have returned
Returned == {k \in TaskIds : tasks[k].pc \in {"finished", "joined"}}

\* the positions of conv_subs that hold the result of the do_ocr call k
ResultsOf(k) ==
  {n \in 1..Len(conv_subs) :
     /\ conv_subs[n].counter = tasks[k].counter
     /\ conv_subs[n].start_pts = tasks[k].start_pts
     /\ (~Written(n) => conv_subs[n].end_pts = tasks[k].end_pts)}

\* C11: a do_ocr call whose recognition failed still returns, having
\* appended exactly one result with its frame's counter, start_pts and
\* end_pts and having set the done flag of its slot; main() never ends
\* because of it (it ends with 1, -1 or, after the write loop, 0); at the
\* end there is one record per do_ocr call, and the record of a frame whose
\* recognition succeeded has that frame's counter, start_pts and trimmed
\* text, and an end that comes from the time stamps alone, with or without
\* failed recognitions of other frames.
C11_FailureIsolated ==
  /\ \A k \in Returned : Cardinality(ResultsOf(k)) = 1
  /\ \A k \in TaskIds :
       (tasks[k].pc = "finished" /\ threads[tasks[k].done + 1].t \in {0, k})
         => threads[tasks[k].done + 1].done
  /\ pc = "exit" => exit_code \in {1, -1}
  /\ pc = "done" => (exit_code = 0 /\ Len(srt) = Len(tasks))
  /\ \A n \in 1..Len(srt) :
       LET k == TaskOf(srt[n].counter)
       IN  /\ srt[n].start_pts = tasks[k].start_pts
           /\ srt[n].text = PrintS(tasks[k].text)
           /\ k \notin Failed => srt[n].text = tasks[k].text.str
           /\ \/ srt[n].end_pts = tasks[k].end_pts
              \/ /\ n < Len(conv_subs)
                 /\ srt[n].end_pts = conv_subs[n + 1].start_pts
              \/ /\ n = Len(conv_subs)
                 /\ tasks[k].end_pts = UINT_MAX
                 /\ srt[n].end_pts \in IndeterminateValues

\* C11 witness: the recognition of the second of three frames failed; the run
\* went on to the end and wrote three records, the first and the third with
\* their recognized text.
C11_Witness ==
  /\ pc = "done"
  /\ Len(srt) = 3
  /\ TaskOf(2) \in Failed
  /\ Failed = {TaskOf(2)}
  /\ srt[1].text = <<"a">>
  /\ srt[3].text = <<"a">>
  /\ srt[2].counter = 2

\* C12: the write loop never hands fprintf a NULL text, and the record of a
\* frame whose recognition failed is written with the empty string as text.
C12_EmptyTextOnFailure ==
  /\ pc = "write" =>
       \A n \in (i + 1)..Len(conv_subs) : ~conv_subs[n].text.null
  /\ \A n \in 1..Len(srt) :
       TaskOf(srt[n].counter) \in Failed => srt[n].text = <<>>

\* C13: a step of the dispatcher that finds room for a new slot and does not
\* get an engine (init_tesseract returned NULL, for the first slot or a later
\* one) ends main() there with a return value that is not 0 and with no
\* record written; once main() has returned, no frame is read, no do_ocr call
\* is started and no record is written any more.
C13_InitFailureFatal ==
  /\ [][(pc = "dispatch" /\ pc' # pc /\ HasCapacity /\ engines' = engines)
          => (pc' = "exit" /\ exit_code' # 0 /\ srt' = <<>>)]_vars
  /\ [][pc = "exit"
          => /\ pc' = "exit"
             /\ exit_code' = exit_code
             /\ nread' = nread
             /\ Len(tasks') = Len(tasks)
             /\ srt' = srt]_vars

\* C13 witness: the first slot got its engine and ran a frame, the second
\* frame found room for a second slot whose engine could not be made; main()
\* has returned -1 with nothing written.
C13_Witness ==
  /\ pc = "exit"
  /\ exit_code = -1
  /\ Len(threads) = 1
  /\ Len(engines) = 1
  /\ Len(tasks) = 1
  /\ nread >= 2
  /\ srt = <<>>

\* C14: until srtout has been opened no engine exists and no frame has been
\* read or given to a slot; when fopen fails main() returns 1 in that state,
\* with nothing written.
C14_OpenFailureFirst ==
  /\ pc = "open" =>
       (engines = <<>> /\ threads = <<>> /\ nread = 0 /\ tasks = <<>>)
  /\ (pc = "exit" /\ exit_code = 1) =>
       /\ engines = <<>>
       /\ threads = <<>>
       /\ nread = 0
       /\ tasks = <<>>
       /\ conv_subs = <<>>
       /\ srt = <<>>

\* C14 witness: fopen failed and main() has returned 1.
C14_Witness ==
  /\ pc = "exit"
  /\ exit_code = 1
  /\ engines = <<>>
  /\ nread = 0

\* the number a string of decimal digits stands for
DigitOf(c) == CHOOSE d \in 0..9 : DigitChar(d) = c
IsDigits(str) ==
  \A n \in 1..Len(str) : \E d \in 0..9 : DigitChar(d) = str[n]

RECURSIVE NumberOf(_)
NumberOf(str) ==
  IF str = <<>> THEN 0
  ELSE NumberOf(SubSeq(str, 1, Len(str) - 1)) * 10 + DigitOf(str[Len(str)])

\* q is the quotient of the unsigned t by 90: 90 * q + r = t for a remainder
\* r below 90, checked on the two halves of t
IsQuotientBy90(q, t) ==
  \E r \in 0..89 :
    LET low == 90 * (q % 65536) + r
    IN  /\ low % 65536 = Low(t)
        /\ 90 * (q \div 65536) + (low \div 65536) = High(t)

\* the fields of a string H..H:MM:SS,mmm read from its end
SrtFields(str) ==
  LET n == Len(str)
  IN  [h |-> SubSeq(str, 1, n - 10), m |-> SubSeq(str, n - 8, n - 7),
       s |-> SubSeq(str, n - 5, n - 4), ms |-> SubSeq(str, n - 2, n),
       seps |-> <<str[n - 9], str[n - 6], str[n - 3]>>]

\* C15: for a time stamp t anywhere in the unsigned range the string that
\* pts2srt returns is H..H:MM:SS,mmm with at least two digits of hours, fits
\* buf (at most length - 1 characters, nothing cut off), and its numbers
\* h, m, s, ms satisfy h*3600000 + m*60000 + s*1000 + ms = t div 90 with
\* m, s < 60 and ms < 1000; they are the locals of pts2srt, whose products
\* and differences stay between 0 and t div 90, so that nothing wraps.
C15_Pts2SrtDecomposition ==
  pc = "returned" =>
    LET f == SrtFields(buf)
        l == pts2srt_locals(pts)
        h == NumberOf(f.h)
        m == NumberOf(f.m)
        sec == NumberOf(f.s)
        ms == NumberOf(f.ms)
    IN  /\ Len(buf) >= 12
        /\ Len(buf) <= length - 1
        /\ f.seps = <<":", ":", ",">>
        /\ IsDigits(f.h) /\ IsDigits(f.m) /\ IsDigits(f.s) /\ IsDigits(f.ms)
        /\ l = [h |-> h, m |-> m, s |-> sec, ms |-> ms]
        /\ m < 60 /\ sec < 60 /\ ms < 1000
        /\ h <= 13
        /\ IsQuotientBy90(h * 3600000 + m * 60000 + sec * 1000 + ms, pts)
        /\ l.h * 3600 * 1000 <= UDiv90(pts)
        /\ l.m * 60 * 1000 <= UDiv90(pts) - l.h * 3600 * 1000

\* C15 witness: pts2srt was called with UINT_MAX, the largest time stamp, and
\* has returned 13:15:21,858.
C15_Witness ==
  /\ pc = "returned"
  /\ pts = UINT_MAX
  /\ buf = <<"1", "3", ":", "1", "5", ":", "2", "1", ",", "8", "5", "8">>

\* C16: when the stream is the three frames of ExampleStream, --dumb is off
\* and the run has ended, three records have been written, with the
\* counters 1, 2, 3, the starts 0, 9000, 18000 and the ends 9000, 18000,
\* 27000; the start of the second record is written as 00:00:00,100.
C16_EndToEndExample ==
  (example = Len(ExampleStream) /\ nread = example /\ ~dumb /\ pc = "done")
    => /\ Len(srt) = 3
       /\ \A n \in 1..3 :
            /\ srt[n].counter = n
            /\ srt[n].start_pts = ExampleStream[n].start_pts
       /\ srt[1].end_pts = 9000
       /\ srt[2].end_pts = 18000
       /\ srt[3].end_pts = 27000
       /\ srt[2].start =
            <<"0", "0", ":", "0", "0", ":", "0", "0", ",", "1", "0", "0">>

\* C17: with max_threads = 1 no thread is ever made: every do_ocr call is
\* made by main() itself, which stays in that call until it has returned, so
\* at most one call has not returned, it is the one for the frame read last,
\* and the results are pushed to conv_subs in counter order.
C17_PoolOfOneSynchronous ==
  max_threads = 1 =>
    /\ \A k \in TaskIds : tasks[k].inline
    /\ \A n \in 1..Len(threads) : threads[n].t = 0
    /\ Cardinality(Running) <= 1
    /\ Running # {} => (pc = "inline" /\ Running = {Len(tasks)})
    /\ ~reordered
    /\ pc \notin {"write", "done"} =>
         \A n \in 1..Len(conv_subs) : conv_subs[n].counter = n

\* C17 witness: with max_threads = 1 main() is inside the do_ocr call of a
\* third frame, on the one slot, with the results of the first two in order.
C17_Witness ==
  /\ max_threads = 1
  /\ pc = "inline"
  /\ Len(threads) = 1
  /\ Len(tasks) = 3
  /\ Running = {3}
  /\ Len(conv_subs) = 2

\* C18: when the drain loop is over, and from then on through the sort and
\* the write loop, the read loop has ended, every do_ocr call that was
\* started has returned, every thread has been joined, the mutex is free and
\* conv_subs holds all the results: no do_ocr call can still push to
\* conv_subs while main() sorts, repairs and writes it.
C18_JoinBarrier ==
  DrainFinished =>
    /\ Running = {}
    /\ mut = 0
    /\ \A k \in TaskIds :
         IF tasks[k].inline THEN tasks[k].pc = "finished"
                            ELSE tasks[k].pc = "joined"
    /\ Len(conv_subs) = Len(tasks)
    /\ sub_counter = Len(tasks) + 1

\* C18 witness: the write loop is at work on the results of three threads
\* that ran on two slots and were all joined.
C18_Witness ==
  /\ pc = "write"
  /\ i = 1
  /\ Len(threads) = 2
  /\ Len(tasks) = 3
  /\ \A k \in TaskIds : tasks[k].pc = "joined"

\* C19: under fair scheduling, with a pool size of at least 1, the polling
\* loop always gets a slot in the end and goes on to the next packet, and a
\* run that has entered the read loop ends: main() returns 0 after the drain
\* and the write loop, unless an engine could not be made (it returns -1).
C19_RunTerminates ==
  /\ (pc = "poll" /\ max_threads >= 1) ~> (pc = "read")
  /\ (pc = "read" /\ max_threads >= 1)
       ~> (pc = "done" \/ (pc = "exit" /\ exit_code = -1))

\* C19 witness: a pool of two slots has carried three frames, the third after
\* the polling loop had found a slot for it, and the run has ended with the
\* three records written.
C19_Witness ==
  /\ pc = "done"
  /\ exit_code = 0
  /\ max_threads = 2
  /\ Len(tasks) = 3
  /\ Len(srt) = 3

\* the record that the frame with counter n of K accepted frames gets in a
\* run that is determined by the frames, the recognized texts and --dumb: a
\* frame that is not the last ends where its successor starts if its end is
\* not known or --dumb is given, every other frame keeps its end
DeterminedRecord(n, K) ==
  LET t == tasks[TaskOf(n)]
      end_pts == IF n < K /\ (dumb \/ t.end_pts = UINT_MAX)
                   THEN tasks[TaskOf(n + 1)].start_pts
                   ELSE t.end_pts
  IN  [counter |-> n, start_pts |-> t.start_pts, end_pts |-> end_pts,
       start |-> pts2srt(t.start_pts), end |-> pts2srt(end_pts),
       text |-> PrintS(t.text)]

\* C20: the records written are determined by the accepted frames in the
\* order they were read, the text recognized for each and --dumb: at the end
\* of every run, whatever max_threads is and in whatever order the do_ocr
\* calls ran and returned, record n is DeterminedRecord(n, K).
C20_OutputDetermined ==
  pc = "done" =>
    /\ Len(srt) = Len(tasks)
    /\ \A n \in 1..Len(srt) : srt[n] = DeterminedRecord(n, Len(tasks))

\* C21: the script returns 1 only when subtitles were processed (SRTs made
\* and muxed, or saved externally) or processing was skipped for lack of
\* subtitles; it returns -1 whenever tracks were attempted and no SRT was
\* generated, and whenever muxing failed and the fallback saved no SRT.
C21_ScriptResult ==
  script.pc = "returned" =>
    /\ script.result \in {1, -1}
    /\ script.result = 1 =>
         \/ script.srtFilesDataForProcessing # <<>> /\ script.muxed
         \/ script.createdCount > 0
         \/ script.skipped
    /\ ( /\ script.finalFilteredTracks # <<>> \/ script.vobsubArgs # <<>>
         /\ script.srtFilesDataForProcessing = <<>>
         /\ ~script.srtFilePathInTemp ) => script.result = -1
    /\ (script.muxFailed /\ script.createdCount = 0) => script.result = -1

\* muxing failed, the fallback saved nothing, and the script returned
C21_Witness ==
  /\ script.pc = "returned"
  /\ script.muxFailed
  /\ script.createdCount = 0
  /\ Len(script.srtFilesDataForProcessing) = 2

\* a language that is neither empty nor "und"
Available(language) == trim(language) # <<>> /\ language # UND

\* C22: with TesseractOcrLanguage empty, --tesseract-lang gets
\* VobSubStreamLanguage if that is set, otherwise the language of the MKV
\* track, and "eng" only when neither of them is available.
C22_TesseractLangDerived ==
  \A n \in DOMAIN script.vobsubArgs :
    trim(script.TesseractOcrLanguage) = <<>> =>
      script.vobsubArgs[n].tesseract_lang =
        IF Available(script.VobSubStreamLanguage)
          THEN trim(script.VobSubStreamLanguage)
        ELSE IF Available(script.vobsubArgs[n].track_language)
          THEN script.vobsubArgs[n].track_language
        ELSE ENG

\* what a step of the program does to the slot threads[s - 1]
SlotStep(s) ==
  LET old == threads[s].t
      new == threads'[s].t
  IN  /\ (old # 0 /\ new # old) =>
           /\ pc = "poll_join"
           /\ i = s - 1
           /\ threads[s].done
           /\ tasks[old].pc = "finished"
           /\ tasks'[old].pc = "joined"
           /\ ~threads'[s].done
           /\ new = Len(tasks) + 1
           /\ tasks'[new].pc = "ocr"
      /\ (threads[s].done /\ ~threads'[s].done) =>
           (old # 0 /\ tasks[old].pc = "finished")

\* C23: with N > 1 a slot is given a new task only after the dispatcher has
\* seen its done flag set and joined its previous task, the flag is false
\* when the new task starts and stays false while the task runs; the
\* dispatcher clears the flag of, or joins, no slot whose task is running.
C23_SlotLifecycle ==
  /\ [](max_threads > 1 =>
          \A k \in Running : /\ threads[tasks[k].done + 1].t = k
                             /\ ~threads[tasks[k].done + 1].done)
  /\ [][max_threads > 1 =>
          /\ \A s \in 1..Len(threads) : SlotStep(s)
          /\ (pc = "poll" /\ pc' = "poll_join") => threads[i + 1].done
          /\ \A k \in TaskIds :
               (tasks[k].pc # "joined" /\ tasks'[k].pc = "joined") =>
                 tasks[k].pc = "finished"]_vars

\* C23 witness: in a pool of two slots the third frame runs on a slot whose
\* earlier task was joined, with the flag of the slot false
C23_Witness ==
  /\ max_threads = 2
  /\ Len(tasks) = 3
  /\ tasks[3].pc = "ocr"
  /\ threads[tasks[3].done + 1].t = 3
  /\ ~threads[tasks[3].done + 1].done
  /\ \E k \in 1..2 : tasks[k].pc = "joined" /\ tasks[k].done = tasks[3].done

\* the do_ocr calls between mut->lock() and mut->unlock()
InAppend == {k \in TaskIds : tasks[k].pc = "push"}

\* the results conv_subs holds for the do_ocr call k
Appended(k) ==
  Cardinality({n \in 1..Len(conv_subs) :
                 conv_subs[n].counter = tasks[k].counter})

\* C24: at most one do_ocr call is inside the locked push_back at any time;
\* the mutex is held only by a call whose TesseractRect has returned, only
\* for its single push_back, and is free again once that is done.
C24_LockedAppend ==
  /\ Cardinality(InAppend) <= 1
  /\ InAppend = (IF mut = 0 THEN {} ELSE {mut})
  /\ \A k \in InFlight : mut # k /\ Appended(k) = 0
  /\ \A k \in TaskIds :
       /\ tasks[k].pc \in {"lock", "push"} =>
            tasks[k].image_cpy = "freed" /\ Appended(k) = 0
       /\ tasks[k].pc \in {"store", "finished", "joined"} =>
            mut # k /\ Appended(k) = 1

\* C24 witness: one call holds the mutex for its push_back while another,
\* whose recognition has returned, waits for it
C24_Witness ==
  \E k1, k2 \in TaskIds :
    /\ mut = k1
    /\ tasks[k1].pc = "push"
    /\ tasks[k2].pc = "lock"

\* min(a, b)
Min(a, b) == IF a < b THEN a ELSE b

\* the dispatcher takes the frame it was given to a slot, or main returns
Dispatched == pc = "dispatch" /\ pc' # pc

\* C25: slots and their engines are made on demand and never again: as long
\* as fewer than N slots exist the dispatcher makes a new slot with a new
\* engine for the frame, without polling, even if a slot is done already;
\* with N slots no engine is made any more; so the number of engines made is
\* min(N, number of frames given to a slot), and each slot keeps its engine.
C25_LazySlots ==
  /\ [](/\ Len(engines) = Min(max_threads, Len(tasks))
        /\ Len(threads) = Len(engines)
        /\ \A s \in 1..Len(threads) : threads[s].tess_base_api = s)
  /\ [][/\ (Dispatched /\ Len(threads) < max_threads /\ exit_code' # -1) =>
             /\ Len(threads') = Len(threads) + 1
             /\ Len(engines') = Len(engines) + 1
             /\ Len(tasks') = Len(tasks) + 1
             /\ tasks'[Len(tasks')].done = Len(threads)
             /\ tasks'[Len(tasks')].tess_base_api = Len(engines')
             /\ pc' \in {"read", "inline"}
        /\ Len(threads) >= max_threads => Len(engines') = Len(engines)
        /\ \A s \in 1..Len(threads) :
             threads'[s].tess_base_api = threads[s].tess_base_api]_vars

\* C25 witness: the second slot of a pool of two was made, with an engine of
\* its own, for the second frame while the first slot is done and was not
\* taken again
C25_Witness ==
  /\ max_threads = 2
  /\ Len(engines) = 2
  /\ Len(tasks) = 2
  /\ threads[1].done
  /\ threads[1].t = 1
  /\ tasks[2].pc = "ocr"
  /\ tasks[2].tess_base_api = 2

\* C26: the pool size the dispatcher works with is at least 1 once a size
\* <= 0 has been replaced by hardware_concurrency(), whatever that returns;
\* the first accepted frame gets a new slot and the dispatcher does not
\* enter the polling loop for it.
C26_CapacityAtLeastOne ==
  /\ pc # "open" /\ exit_code # 1 => max_threads >= 1
  /\ pc \in {"poll", "poll_join"} => Len(tasks) >= 1

\* C27: a do_ocr call stores true to done only after its result is in
\* conv_subs and the mutex is released: whenever the done flag of a slot is
\* set for the call the slot was given last, conv_subs holds the result of
\* that call and the call does not hold the mutex.
C27_DoneAfterAppend ==
  /\ [](\A s \in 1..Len(threads) :
          (threads[s].done /\ threads[s].t # 0) =>
            /\ tasks[threads[s].t].pc \in {"finished", "joined"}
            /\ Appended(threads[s].t) = 1
            /\ mut # threads[s].t)
  /\ [][\A k \in TaskIds :
          (tasks[k].pc # "finished" /\ tasks'[k].pc = "finished") =>
            /\ tasks[k].pc = "store"
            /\ Appended(k) = 1
            /\ mut # k
            /\ threads'[tasks[k].done + 1].done]_vars

\* C27 witness: the flag of a slot is set for its thread, which has not been
\* joined, while the call on the other slot waits for the mutex
C27_Witness ==
  \E s \in 1..Len(threads) :
    /\ threads[s].done
    /\ threads[s].t # 0
    /\ tasks[threads[s].t].pc = "finished"
    /\ \E k \in TaskIds : tasks[k].pc = "lock"

\* the frames given to do_ocr so far whose call has returned to main or
\* runs in a thread of its own: ++sub_counter was done for them
Counted == {k \in TaskIds : ~(tasks[k].inline /\ k \in Running)}

\* C28: the counters go to the accepted frames in the order of the stream:
\* the k-th frame given to do_ocr has counter k, a frame skipped as a
\* duplicate or for its size changes neither sub_counter nor the tasks, and
\* after a run with K accepted frames the records written are numbered
\* 1, 2, ..., K in this order.
C28_CountersInStreamOrder ==
  /\ [](/\ \A k \in TaskIds : tasks[k].counter = k
        /\ sub_counter = Cardinality(Counted) + 1
        /\ pc = "done" =>
             /\ Len(srt) = Len(tasks)
             /\ \A n \in 1..Len(srt) : srt[n].counter = n)
  /\ [][nread' # nread =>
          /\ sub_counter' = sub_counter
          /\ tasks' = tasks
          /\ fate' = "accepted" => sub_counter = Len(tasks) + 1
          /\ fate' \in {"duplicate", "too_small"} => pc' = "read"]_vars
  /\ [][Len(tasks') # Len(tasks) =>
          /\ tasks'[Len(tasks')].counter = sub_counter
          /\ tasks'[Len(tasks')].start_pts = cur.start_pts
          /\ fate = "accepted"]_vars

\* C28 witness: of three frames one was skipped and the two records written
\* are numbered 1 and 2
C28_Witness ==
  /\ pc = "done"
  /\ nread = 3
  /\ fate \in {"duplicate", "too_small"}
  /\ Len(srt) = 2
  /\ srt[2].counter = 2

\* record n of the output got its end from the start of record n + 1
RepairedFromSuccessor(n) ==
  /\ n < Len(conv_subs)
  /\ (dumb \/ OriginalEnd(n) = UINT_MAX)

\* C29: if no frame of the stream had a start_pts below that of the frame
\* before it, the frames given to do_ocr and the records of the output have
\* strictly increasing start_pts, and every record whose end was taken from
\* its successor ends after it starts.
C29_IncreasingStarts ==
  ordered =>
    /\ \A k \in 2..Len(tasks) : tasks[k - 1].start_pts < tasks[k].start_pts
    /\ pc \in {"write", "done"} =>
         \A n \in 1..Len(srt) :
           /\ n > 1 => srt[n - 1].start_pts < srt[n].start_pts
           /\ RepairedFromSuccessor(n) =>
                /\ srt[n].end_pts = conv_subs[n + 1].start_pts
                /\ srt[n].end_pts > srt[n].start_pts

\* C29 witness: an ordered stream of three frames with a duplicate gave two
\* records, the first with its end taken from the second
C29_Witness ==
  /\ ordered
  /\ pc = "done"
  /\ nread = 3
  /\ Len(srt) = 2
  /\ reordered
  /\ RepairedFromSuccessor(1)
  /\ srt[1].start_pts = 9000
  /\ srt[1].end_pts = 18000

\* the do_ocr call k was started for the frame f
StartedFor(k, f) ==
  /\ tasks[k].start_pts = f.start_pts
  /\ tasks[k].end_pts = f.end_pts
  /\ tasks[k].width = f.width
  /\ tasks[k].height = f.height

\* C30: every result in conv_subs has the counter, start_pts and end_pts of
\* the frame whose image TesseractRect was run on to get its text: each
\* do_ocr call gets the counter, the time stamps and a copy of the image of
\* the frame it is started for, recognizes that copy and pushes the text
\* with those values, whatever other calls and later frames do meanwhile.
C30_ResultOfOwnFrame ==
  /\ [](\A n \in 1..Len(conv_subs) :
          \E k \in TaskIds :
            /\ tasks[k].counter = conv_subs[n].counter
            /\ \A m \in TaskIds : tasks[m].counter = tasks[k].counter => m = k
            /\ StartedFor(k, tasks[k].recognized)
            /\ conv_subs[n].start_pts = tasks[k].recognized.start_pts
            /\ ~Written(n) =>
                 /\ conv_subs[n].end_pts = tasks[k].recognized.end_pts
                 /\ conv_subs[n].text = tasks[k].text)
  /\ [][Len(tasks') # Len(tasks) =>
          /\ tasks'[Len(tasks')].image = cur
          /\ tasks'[Len(tasks')].start_pts = cur.start_pts
          /\ tasks'[Len(tasks')].end_pts = cur.end_pts
          /\ tasks'[Len(tasks')].counter = sub_counter
          /\ SubSeq(tasks', 1, Len(tasks)) =
               [k \in TaskIds |->
                  IF tasks[k].pc = tasks'[k].pc THEN tasks[k]
                  ELSE [tasks[k] EXCEPT !.pc = "joined"]]]_vars

\* C30 witness: on a reused slot of a pool of two a call has recognized its
\* frame while the other slot's call, for an earlier frame with another
\* start_pts, has not pushed its result yet; two results are in conv_subs
C30_Witness ==
  /\ max_threads = 2
  /\ Len(tasks) = 3
  /\ Len(conv_subs) = 2
  /\ tasks[3].pc = "store"
  /\ \E k \in 1..2 :
       /\ tasks[k].pc = "lock"
       /\ tasks[k].start_pts # tasks[3].start_pts

\* C31: the copy of the image of a frame belongs to the one do_ocr call it
\* was made for; that call frees it once, when its TesseractRect call has
\* returned, with a text or with NULL, and it is never freed while the
\* TesseractRect call reads it.
C31_ImageCopyFreedOnce ==
  /\ [](\A k \in TaskIds :
          /\ tasks[k].pc = "ocr" => tasks[k].image_cpy = "allocated"
          /\ tasks[k].pc # "ocr" => tasks[k].image_cpy = "freed")
  /\ [][\A k \in TaskIds :
          tasks'[k].image_cpy # tasks[k].image_cpy =>
            /\ tasks[k].image_cpy = "allocated"
            /\ tasks'[k].image_cpy = "freed"
            /\ tasks[k].pc = "ocr"
            /\ tasks'[k].pc = "lock"
            /\ tasks'[k].recognized = tasks[k].image
            /\ \A m \in TaskIds \ {k} : tasks'[m] = tasks[m]]_vars
  /\ [][Len(tasks') # Len(tasks) =>
          /\ Len(tasks') = Len(tasks) + 1
          /\ tasks'[Len(tasks')].image_cpy = "allocated"
          /\ tasks'[Len(tasks')].image = cur]_vars

\* C31 witness: the run is over; of two calls that ran at the same time
\* one got NULL and one a text, and both have freed their copies
C31_Witness ==
  /\ pc = "done"
  /\ reordered
  /\ \E k1, k2 \in TaskIds :
       /\ tasks[k1].text.null
       /\ ~tasks[k2].text.null
       /\ tasks[k1].image_cpy = "freed"
       /\ tasks[k2].image_cpy = "freed"

\* the do_ocr calls that were given the engine e
UsersOf(e) == {k \in TaskIds : tasks[k].tess_base_api = e}

\* C32: when the drain is over on the way to the output every engine that
\* was made is released; an engine is released once, by the drain, and only
\* when every do_ocr call that used it has returned and the thread of the
\* last one has been joined, so never while a recognition runs on it.
C32_EnginesReleased ==
  /\ [](/\ pc \in {"write", "done"} =>
             \A e \in 1..Len(engines) : engines[e] = "deleted"
        /\ \A e \in 1..Len(engines) :
             engines[e] = "deleted" =>
               \A k \in UsersOf(e) :
                 tasks[k].pc = (IF tasks[k].inline THEN "finished"
                                ELSE "joined"))
  /\ [][\A e \in 1..Len(engines) :
          engines'[e] # engines[e] =>
            /\ engines[e] = "live"
            /\ engines'[e] = "deleted"
            /\ pc = "drain"
            /\ threads[i + 1].tess_base_api = e
            /\ i' = i + 1
            /\ \A k \in UsersOf(e) : tasks[k].pc \in {"finished", "joined"}
            /\ \A d \in 1..Len(engines) : d # e => engines'[d] = engines[d]
        ]_vars

\* C32 witness: the drain of a pool of two slots is over; the engine of the
\* first slot served two calls, both engines are released
C32_Witness ==
  /\ pc = "write"
  /\ Len(engines) = 2
  /\ Cardinality(UsersOf(1)) = 2
  /\ engines[1] = "deleted"
  /\ engines[2] = "deleted"

\* the thread of slot s (1-based) has been through the drain loop
Drained(s) == pc \in {"write", "done"} \/ (pc = "drain" /\ s <= i)

\* C35: a join is issued only for a thread that was started and has not
\* been joined: until the drain has dealt with a slot, the thread in it is
\* one not yet joined; every step joins at most one thread, the one of the
\* slot at hand; after the drain each call that was given a thread has been
\* joined; with max_threads = 1 no thread exists and no join is issued.
C35_JoinedOnce ==
  /\ [](/\ \A s \in 1..Len(threads) :
             (threads[s].t # 0 /\ ~Drained(s)) =>
               /\ threads[s].t \in TaskIds
               /\ ~tasks[threads[s].t].inline
               /\ tasks[threads[s].t].pc # "joined"
        /\ \A k \in TaskIds :
             /\ tasks[k].inline <=> max_threads = 1
             /\ tasks[k].inline => tasks[k].pc # "joined"
             /\ (pc \in {"write", "done"} /\ ~tasks[k].inline) =>
                  tasks[k].pc = "joined"
        /\ max_threads = 1 => \A s \in 1..Len(threads) : threads[s].t = 0)
  /\ [][\A k \in TaskIds :
          (tasks[k].pc # tasks'[k].pc /\ tasks'[k].pc = "joined") =>
            /\ pc \in {"poll_join", "drain"}
            /\ threads[i + 1].t = k
            /\ tasks[k].pc = "finished"
            /\ max_threads # 1
            /\ \A m \in TaskIds \ {k} : tasks'[m].pc = tasks[m].pc]_vars
  /\ [][\A k \in TaskIds : tasks[k].pc = "joined" => tasks'[k] = tasks[k]
        ]_vars

\* C35 witness: in a pool of two slots three calls ran, one thread was
\* joined when its slot was taken again and two by the drain
C35_Witness ==
  /\ pc = "write"
  /\ max_threads = 2
  /\ Len(tasks) = 3
  /\ \A k \in TaskIds : tasks[k].pc = "joined"

\* C33: the text do_ocr keeps of a text TesseractRect returned is that text
\* without its trailing white space: a prefix of it that does not end in
\* white space, with nothing but white space cut off; the loop touches no
\* index below 0, for the empty text and for one of white space only too.
C33_TrailingWhitespaceTrimmed ==
  ocr_text.pc = "trimmed" =>
    LET r == ocr_text.returned
        t == CString(ocr_text.str)
    IN  /\ Len(t) <= Len(r)
        /\ t = SubSeq(r, 1, Len(t))
        /\ t # <<>> => ~isspace(t[Len(t)])
        /\ \A j \in Len(t) + 1..Len(r) : isspace(r[j])
        /\ ocr_text.lowest >= 0
        /\ ocr_text.lowest <= Len(r)
        /\ Len(ocr_text.str) = Len(r) + 1

\* C33 witness: the trim of a text of white space only went down to index
\* 0 and stopped there
C33_Witness ==
  /\ ocr_text.pc = "trimmed"
  /\ ocr_text.returned = <<" ", "\n">>
  /\ CString(ocr_text.str) = <<>>
  /\ ocr_text.lowest = 0

\* C34: with --dump-images the file written for an accepted frame holds the
\* image as the decoder delivered it, before the inversion, and the
\* inversion leaves the decoder's buffer as it was.
C34_DumpBeforeInversion ==
  /\ sub_image.decoder = sub_image.delivered
  /\ (sub_image.pc = "dispatch" /\ sub_image.dump_images) =>
       sub_image.pgm = dump_pgm(sub_image.delivered, 0, sub_image.width,
                                sub_image.stride)
====
